---- MODULE Spec2Model ----
(***************************************************************************)
(* Task-manager client (React + hosted store).  Two revisions of App.tsx   *)
(* are modelled: the tag revision (src/src/App.tsx) and the                *)
(* priority/status revision (src/unnamed/part_002).  The variable rev      *)
(* says which revision a behaviour runs; it never changes.                 *)
(*                                                                         *)
(* A remote call is a record in calls, keyed by its submission number.     *)
(* It is "sent" until the store handles it (ServerHandle), then "ok" or    *)
(* "err" until the client's continuation after the await runs.  Handlers   *)
(* run to completion, so each handler start and each continuation is one   *)
(* step.  Values a handler closes over (the task, the list, the session's  *)
(* user) are stored in the call record.                                    *)
(***************************************************************************)
EXTENDS Integers, Sequences, FiniteSets, TLC

VARIABLES rev, session, tasks, error, loading, saving, profileName,
          restored, authLeft, callsLeft, calls, profileCalls, nextSeq, rows,
          nextId, importCandidates, importLoading, cache, lastEvt,
          view, statusFilter, sortBy, clock

vars == <<rev, session, tasks, error, loading, saving, profileName,
          restored, authLeft, callsLeft, calls, profileCalls, nextSeq, rows,
          nextId, importCandidates, importLoading, cache, lastEvt,
          view, statusFilter, sortBy, clock>>

(***************************************************************************)
(* Bounds of the model.                                                    *)
(***************************************************************************)
\* Remote calls issued by the user's actions (add, toggle, tag, delete) in one
\* behaviour that starts signed in with the list loaded.
MaxCalls == 2
\* The same in a behaviour that starts at construction and has session events.
MaxSessionCalls == 1
\* Session-change notifications delivered in one behaviour (the session
\* restore is one more session event).
MaxAuthEvents == 1

\* The last local day (counted from 2024-04-28) on which a render starts.
MaxDay == 4

\* The longest task list a view is derived from in the view specifications.
MaxViewTasks == 2

\* The longest task list that is sorted in the view specifications.
MaxSortTasks == 3

(***************************************************************************)
(* Values.                                                                 *)
(***************************************************************************)
Users == {"u1", "u2"}
NoSession == "none"
Null == "null"
NoError == <<>>

\* localStorage.getItem(STORAGE_KEY) when the key is absent
NoCache == [t |-> "null", v |-> Null]
\* the values of a row's tag column: the two tags, null, and a value the
\* client does not know
RawTags == {"work", "personal", Null, "legacy"}
TaskTags == {"work", "personal", Null}
DueDates == {Null, "2024-05-01"}
\* what the user can have in the new-task form when submitting it: a title
\* (characters, some of them blanks), a due date and a tag
NewTaskInputs ==
    { [title |-> <<>>, due |-> Null, tag |-> Null],
      [title |-> <<" ">>, due |-> "2024-05-01", tag |-> "work"],
      [title |-> <<" ", "a">>, due |-> Null, tag |-> Null],
      [title |-> <<"a", " ">>, due |-> "2024-05-01", tag |-> "personal"] }
NetworkError == "network"
NoRowError == "no rows"

\* String.prototype.trim on a sequence of characters
RECURSIVE TrimLeft(_)
TrimLeft(s) == IF s # <<>> /\ Head(s) = " " THEN TrimLeft(Tail(s)) ELSE s

RECURSIVE TrimRight(_)
TrimRight(s) ==
    IF s # <<>> /\ s[Len(s)] = " " THEN TrimRight(SubSeq(s, 1, Len(s) - 1)) ELSE s

\* mutant: the title is not trimmed
trimNothing(s) == s

trim(s) == TrimRight(TrimLeft(s))

(***************************************************************************)
(* The store before the client starts: rows of earlier sessions.           *)
(***************************************************************************)
InitRows ==
    (1 :> [id |-> 1, user_id |-> "u1", text |-> <<"a">>, completed |-> FALSE,
           created_at |-> 1, due_date |-> Null, tag |-> "work"])
 @@ (2 :> [id |-> 2, user_id |-> "u1", text |-> <<"a">>, completed |-> TRUE,
           created_at |-> 2, due_date |-> "2024-05-01", tag |-> "legacy"])
 @@ (3 :> [id |-> 3, user_id |-> "u2", text |-> <<"a">>, completed |-> FALSE,
           created_at |-> 3, due_date |-> Null, tag |-> Null])

InitTime == Cardinality(DOMAIN InitRows)

\* profiles.name of each user
ProfileRow(u) == IF u = "u1" THEN <<" ", "a">> ELSE Null

(***************************************************************************)
(* Pure helpers of the tag revision.                                       *)
(***************************************************************************)
normalizeTag(value) == IF value = "work" \/ value = "personal" THEN value ELSE Null

\* mutant: the row's tag is taken as it comes
toAppTaskRawTag(row) ==
    [id |-> row.id, title |-> row.text, completed |-> row.completed,
     createdAt |-> row.created_at, dueDate |-> row.due_date, tag |-> row.tag]

toAppTask(row) ==
    [id |-> row.id, title |-> row.text, completed |-> row.completed,
     createdAt |-> row.created_at, dueDate |-> row.due_date,
     tag |-> normalizeTag(row.tag)]

\* prev.map((t) => (t.id === id ? next : t))
ReplaceById(list, id, next) ==
    [i \in 1..Len(list) |-> IF list[i].id = id THEN next ELSE list[i]]

\* prev.filter((t) => t.id !== id)
RemoveById(list, id) == SelectSeq(list, LAMBDA t : t.id # id)

MapSeq(s, F(_)) == [i \in 1..Len(s) |-> F(s[i])]

Ids(list) == {list[i].id : i \in 1..Len(list)}

(***************************************************************************)
(* The store: select ... order by created_at desc.                         *)
(***************************************************************************)
RECURSIVE OrderDesc(_)
OrderDesc(S) ==
    IF S = {} THEN <<>>
    ELSE LET r == CHOOSE x \in S : \A y \in S :
                      x.created_at > y.created_at
                      \/ (x.created_at = y.created_at /\ x.id >= y.id)
         IN  <<r>> \o OrderDesc(S \ {r})

SelectTasks(uid) == OrderDesc({rows[i] : i \in {j \in DOMAIN rows : rows[j].user_id = uid}})

Owned(id, uid) == id \in DOMAIN rows /\ rows[id].user_id = uid

Now == InitTime + nextSeq

(***************************************************************************)
(* Calls and events.                                                       *)
(***************************************************************************)
NoCall == [kind |-> "none"]

\* seen is history: the submission numbers of the other updates of the same
\* task whose responses resolved while this call was in flight
Call(kind, uid, id, previous, sent) ==
    [kind |-> kind, seq |-> nextSeq, user |-> uid, id |-> id, previous |-> previous,
     sent |-> sent, stage |-> "sent", reason |-> Null, data |-> <<>>, seen |-> {}]

\* lastEvt is history: the step just taken, its input, the call it issued or
\* resumed, and the list, the saving flag, the session's user and the
\* submission counter before it
Evt(op, input, call) ==
    [op |-> op, input |-> input, call |-> call, before |-> tasks, saving |-> saving,
     user |-> session, issued |-> nextSeq]

Issue(c) == calls' = (nextSeq :> c) @@ calls

CanIssue == callsLeft > 0

\* the calls of a kind whose await can end: answered by the store, or still
\* "sent", and then the request fails in transit and the store never sees it
Pending(kind) == {s \in DOMAIN calls : calls[s].kind = kind}

Response(s) ==
    IF calls[s].stage = "sent"
    THEN [calls[s] EXCEPT !.stage = "err", !.reason = NetworkError]
    ELSE calls[s]

IsUpdate(c) == c.kind \in {"toggle", "tag", "update"}

\* mutant: the call whose await ended is sent again
Resent(s) == [calls EXCEPT ![s] = [@ EXCEPT !.stage = "sent", !.seen = {}]]

Without(s) ==
    [t \in DOMAIN calls \ {s} |->
        IF IsUpdate(calls[s]) /\ IsUpdate(calls[t]) /\ calls[t].id = calls[s].id
        THEN [calls[t] EXCEPT !.seen = @ \cup {s}]
        ELSE calls[t]]

Drop(s) == calls' = Without(s)

\* mutant: the failure leaves no message
MsgNone(prefix, reason) == NoError

Msg(prefix, reason) == <<prefix, reason>>

(***************************************************************************)
(* Tag revision (src/src/App.tsx): what the handlers compute.              *)
(***************************************************************************)
\* mutant: the record is sent without the user id
InsertTaskPayloadNoUser(trimmed, due, tag, uid) ==
    [text |-> trimmed, completed |-> FALSE, created_at |-> Now, due_date |-> due,
     tag |-> tag, user_id |-> NoSession]

InsertTaskPayload(trimmed, due, tag, uid) ==
    [text |-> trimmed, completed |-> FALSE, created_at |-> Now, due_date |-> due,
     tag |-> tag, user_id |-> uid]

\* mutant: the toggle is not applied to the local record
toggleNotApplied(task) == task

\* toggleTask: const optimistic = { ...task, completed: !task.completed }
toggleOptimistic(task) == [task EXCEPT !.completed = ~task.completed]

\* updateTaskTag: const optimistic = { ...task, tag: nextTag }
tagOptimistic(task, nextTag) == [task EXCEPT !.tag = nextTag]

\* mutant: a failed update leaves the optimistic record in place
revertNothing(list, c) == list

\* toggleTask / updateTaskTag, if (error): put the captured record back
revertRecord(list, c) == ReplaceById(list, c.id, c.previous[1])

\* mutant: a response that arrives after another response for the same task
\* is dropped
confirmUnlessSeen(list, c) ==
    IF c.seen # {} THEN list ELSE ReplaceById(list, c.id, toAppTask(c.data[1]))

\* toggleTask / updateTaskTag, success: put the returned row in
confirmRecord(list, c) == ReplaceById(list, c.id, toAppTask(c.data[1]))

\* deleteTask, if (error): setTasks(previous)
revertDelete(list, c) == c.previous

\* mutant: the inserted row goes to the end of the list
insertAtTail(list, c) == list \o <<toAppTask(c.data[1])>>

\* addTask, success: setTasks((prev) => [toAppTask(inserted), ...prev])
insertAtHead(list, c) == <<toAppTask(c.data[1])>> \o list

\* loadProfile: profile?.name?.trim() ?? '', then normalizedName || null
normalizedProfileName(name) ==
    LET n == IF name = Null THEN <<>> ELSE trim(name)
    IN  IF n = <<>> THEN Null ELSE n

(***************************************************************************)
(* Tag revision: session restore and session-change notifications.         *)
(***************************************************************************)
\* void loadTasks(uid); void loadProfile(uid): both calls leave in this step
StartLoads(uid) ==
    /\ loading' = TRUE
    /\ error' = NoError
    /\ Issue(Call("load", uid, 0, <<>>, NoCall))
    /\ profileCalls' = [profileCalls EXCEPT ![uid] = @ + 1]
    /\ nextSeq' = nextSeq + 1
    /\ UNCHANGED <<tasks, profileName, callsLeft>>

\* setTasks([]); setProfileName(null); setLoading(false)
ClearLocal ==
    /\ tasks' = <<>>
    /\ profileName' = Null
    /\ loading' = FALSE
    /\ UNCHANGED <<calls, profileCalls, nextSeq, callsLeft>>

getSessionResolved(next, failed) ==
    /\ rev = "tag"
    /\ ~restored
    /\ restored' = TRUE
    /\ IF failed
       THEN /\ next = NoSession
            /\ error' = Msg("Could not restore session: ", NetworkError)
            /\ UNCHANGED <<session, tasks, profileName, loading, calls, profileCalls,
                           nextSeq, callsLeft>>
       ELSE /\ session' = next
            /\ IF next # NoSession
               THEN StartLoads(next)
               ELSE ClearLocal /\ UNCHANGED error
    /\ lastEvt' = Evt(IF failed THEN "getSessionFailed" ELSE "getSession", next, NoCall)
    /\ UNCHANGED <<view, statusFilter, sortBy, clock>>
    /\ UNCHANGED <<rev, importCandidates, importLoading, cache, saving, authLeft, rows, nextId>>

onAuthStateChange(nextSession) ==
    /\ rev = "tag"
    /\ authLeft > 0
    /\ authLeft' = authLeft - 1
    /\ session' = nextSession
    /\ IF nextSession # NoSession
       THEN StartLoads(nextSession)
       ELSE ClearLocal /\ error' = NoError
    /\ lastEvt' = Evt("onAuthStateChange", nextSession, NoCall)
    /\ UNCHANGED <<view, statusFilter, sortBy, clock>>
    /\ UNCHANGED <<rev, importCandidates, importLoading, cache, saving, restored, rows, nextId>>

\* logout after its await.  A successful signOut has notified the listener
\* with no session just before the promise resolves; the handler then clears
\* the list and the profile name once more.
logout(failed) ==
    /\ rev = "tag"
    /\ session # NoSession
    /\ authLeft > 0
    /\ authLeft' = authLeft - 1
    /\ IF failed
       THEN /\ error' = Msg("Could not log out: ", NetworkError)
            /\ UNCHANGED <<session, tasks, profileName, loading, calls, profileCalls,
                           nextSeq, callsLeft>>
       ELSE /\ session' = NoSession
            /\ ClearLocal
            /\ error' = NoError
    /\ lastEvt' = Evt("logout", failed, NoCall)
    /\ UNCHANGED <<view, statusFilter, sortBy, clock>>
    /\ UNCHANGED <<rev, importCandidates, importLoading, cache, saving, restored, rows, nextId>>

(***************************************************************************)
(* Tag revision: the handlers up to their await.                           *)
(***************************************************************************)
addTask(title, due, tag) ==
    /\ rev = "tag"
    /\ session # NoSession
    /\ ~saving
    /\ IF trim(title) = <<>>
       THEN /\ error' = <<"Task title cannot be empty.">>
            /\ lastEvt' = Evt("addTask", title, NoCall)
            /\ UNCHANGED <<saving, calls, nextSeq, callsLeft>>
       ELSE /\ CanIssue
            /\ saving' = TRUE
            /\ error' = NoError
            /\ LET c == Call("insert", session, 0, <<>>,
                             InsertTaskPayload(trim(title), due, tag, session))
               IN  Issue(c) /\ lastEvt' = Evt("addTask", title, c)
            /\ nextSeq' = nextSeq + 1
            /\ callsLeft' = callsLeft - 1
    /\ UNCHANGED <<view, statusFilter, sortBy, clock>>
    /\ UNCHANGED <<rev, importCandidates, importLoading, cache, profileCalls, session, tasks, loading, profileName, restored, authLeft,
                   rows, nextId>>

toggleTask(i) ==
    /\ rev = "tag"
    /\ session # NoSession
    /\ ~loading
    /\ CanIssue
    /\ LET task == tasks[i]
           c == Call("toggle", session, task.id, <<task>>,
                     [completed |-> toggleOptimistic(task).completed])
       IN  /\ tasks' = ReplaceById(tasks, task.id, toggleOptimistic(task))
           /\ Issue(c)
           /\ lastEvt' = Evt("toggleTask", i, c)
    /\ nextSeq' = nextSeq + 1
    /\ callsLeft' = callsLeft - 1
    /\ UNCHANGED <<view, statusFilter, sortBy, clock>>
    /\ UNCHANGED <<rev, importCandidates, importLoading, cache, profileCalls, session, error, loading, saving, profileName, restored,
                   authLeft, rows, nextId>>

deleteTask(i) ==
    /\ rev = "tag"
    /\ session # NoSession
    /\ ~loading
    /\ CanIssue
    /\ LET task == tasks[i]
           c == Call("delete", session, task.id, tasks, NoCall)
       IN  /\ tasks' = RemoveById(tasks, task.id)
           /\ Issue(c)
           /\ lastEvt' = Evt("deleteTask", i, c)
    /\ nextSeq' = nextSeq + 1
    /\ callsLeft' = callsLeft - 1
    /\ UNCHANGED <<view, statusFilter, sortBy, clock>>
    /\ UNCHANGED <<rev, importCandidates, importLoading, cache, profileCalls, session, error, loading, saving, profileName, restored,
                   authLeft, rows, nextId>>

updateTaskTag(i, nextTag) ==
    /\ rev = "tag"
    /\ session # NoSession
    /\ ~loading
    /\ tasks[i].tag # nextTag
    /\ CanIssue
    /\ LET task == tasks[i]
           c == Call("tag", session, task.id, <<task>>, [tag |-> nextTag])
       IN  /\ tasks' = ReplaceById(tasks, task.id, tagOptimistic(task, nextTag))
           /\ Issue(c)
           /\ lastEvt' = Evt("updateTaskTag", nextTag, c)
    /\ nextSeq' = nextSeq + 1
    /\ callsLeft' = callsLeft - 1
    /\ UNCHANGED <<view, statusFilter, sortBy, clock>>
    /\ UNCHANGED <<rev, importCandidates, importLoading, cache, profileCalls, session, error, loading, saving, profileName, restored,
                   authLeft, rows, nextId>>

(***************************************************************************)
(* Tag revision: the continuations after the await.                        *)
(***************************************************************************)
loadTasksResolved(s) ==
    /\ rev = "tag"
    /\ s \in Pending("load")
    /\ loading' = FALSE
    /\ IF Response(s).stage = "err"
       THEN /\ error' = Msg("Could not load tasks: ", Response(s).reason)
            /\ UNCHANGED tasks
       ELSE /\ tasks' = MapSeq(Response(s).data, toAppTask)
            /\ UNCHANGED error
    /\ Drop(s)
    /\ lastEvt' = Evt("loadTasksResolved", s, Response(s))
    /\ UNCHANGED <<view, statusFilter, sortBy, clock>>
    /\ UNCHANGED <<rev, importCandidates, importLoading, cache, profileCalls, session, saving, profileName, restored, authLeft, nextSeq, callsLeft,
                   rows, nextId>>

\* loadProfile after its await.  The profile row is not written by anything
\* modelled, so the store's answer is taken when the response arrives.
loadProfileResolved(uid, failed) ==
    /\ rev = "tag"
    /\ profileCalls[uid] > 0
    /\ profileCalls' = [profileCalls EXCEPT ![uid] = @ - 1]
    /\ IF failed
       THEN /\ profileName' = Null
            /\ error' = <<"Could not load profile name.">>
       ELSE /\ profileName' = normalizedProfileName(ProfileRow(uid))
            /\ UNCHANGED error
    /\ lastEvt' = Evt("loadProfileResolved", uid, NoCall)
    /\ UNCHANGED <<view, statusFilter, sortBy, clock>>
    /\ UNCHANGED <<rev, importCandidates, importLoading, cache, session, tasks, loading, saving, restored, authLeft,
                   callsLeft, calls, nextSeq, rows, nextId>>

addTaskResolved(s) ==
    /\ rev = "tag"
    /\ s \in Pending("insert")
    /\ saving' = FALSE
    /\ IF Response(s).stage = "err"
       THEN /\ error' = Msg("Could not add task: ", Response(s).reason)
            /\ UNCHANGED tasks
       ELSE /\ tasks' = insertAtHead(tasks, Response(s))
            /\ UNCHANGED error
    /\ Drop(s)
    /\ lastEvt' = Evt("addTaskResolved", s, Response(s))
    /\ UNCHANGED <<view, statusFilter, sortBy, clock>>
    /\ UNCHANGED <<rev, importCandidates, importLoading, cache, profileCalls, session, loading, profileName, restored, authLeft, nextSeq, callsLeft,
                   rows, nextId>>

toggleTaskResolved(s) ==
    /\ rev = "tag"
    /\ s \in Pending("toggle")
    /\ IF Response(s).stage = "err"
       THEN /\ tasks' = revertRecord(tasks, Response(s))
            /\ error' = Msg("Could not update task: ", Response(s).reason)
       ELSE /\ tasks' = confirmRecord(tasks, Response(s))
            /\ UNCHANGED error
    /\ Drop(s)
    /\ lastEvt' = Evt("toggleTaskResolved", s, Response(s))
    /\ UNCHANGED <<view, statusFilter, sortBy, clock>>
    /\ UNCHANGED <<rev, importCandidates, importLoading, cache, profileCalls, session, loading, saving, profileName, restored, authLeft,
                   nextSeq, callsLeft, rows, nextId>>

deleteTaskResolved(s) ==
    /\ rev = "tag"
    /\ s \in Pending("delete")
    /\ IF Response(s).stage = "err"
       THEN /\ tasks' = revertDelete(tasks, Response(s))
            /\ error' = Msg("Could not delete task: ", Response(s).reason)
       ELSE UNCHANGED <<tasks, error>>
    /\ Drop(s)
    /\ lastEvt' = Evt("deleteTaskResolved", s, Response(s))
    /\ UNCHANGED <<view, statusFilter, sortBy, clock>>
    /\ UNCHANGED <<rev, importCandidates, importLoading, cache, profileCalls, session, loading, saving, profileName, restored, authLeft,
                   nextSeq, callsLeft, rows, nextId>>

updateTaskTagResolved(s) ==
    /\ rev = "tag"
    /\ s \in Pending("tag")
    /\ IF Response(s).stage = "err"
       THEN /\ tasks' = revertRecord(tasks, Response(s))
            /\ error' = Msg("Could not update task tag: ", Response(s).reason)
       ELSE /\ tasks' = confirmRecord(tasks, Response(s))
            /\ UNCHANGED error
    /\ Drop(s)
    /\ lastEvt' = Evt("updateTaskTagResolved", s, Response(s))
    /\ UNCHANGED <<view, statusFilter, sortBy, clock>>
    /\ UNCHANGED <<rev, importCandidates, importLoading, cache, profileCalls, session, loading, saving, profileName, restored, authLeft,
                   nextSeq, callsLeft, rows, nextId>>

(***************************************************************************)
(* The store handles one call of the tag revision.  update ... .single()   *)
(* fails when no row matches id and user_id.                               *)
(***************************************************************************)
Answer(s, stage, reason, data) ==
    calls' = [calls EXCEPT ![s] = [@ EXCEPT !.stage = stage, !.reason = reason,
                                            !.data = data]]

ServerHandle(s) ==
    /\ rev = "tag"
    /\ s \in DOMAIN calls
    /\ calls[s].stage = "sent"
    /\ LET c == calls[s] IN
       CASE c.kind = "load" ->
              Answer(s, "ok", Null, SelectTasks(c.user)) /\ UNCHANGED <<rows, nextId>>
         [] c.kind = "insert" ->
              LET row == [id |-> nextId, user_id |-> c.sent.user_id, text |-> c.sent.text,
                          completed |-> c.sent.completed,
                          created_at |-> c.sent.created_at,
                          due_date |-> c.sent.due_date, tag |-> c.sent.tag]
              IN  /\ rows' = (nextId :> row) @@ rows
                  /\ nextId' = nextId + 1
                  /\ Answer(s, "ok", Null, <<row>>)
         [] c.kind = "toggle" ->
              IF Owned(c.id, c.user)
              THEN LET row == [rows[c.id] EXCEPT !.completed = c.sent.completed]
                   IN  /\ rows' = [rows EXCEPT ![c.id] = row]
                       /\ Answer(s, "ok", Null, <<row>>)
                       /\ UNCHANGED nextId
              ELSE Answer(s, "err", NoRowError, <<>>) /\ UNCHANGED <<rows, nextId>>
         [] c.kind = "tag" ->
              IF Owned(c.id, c.user)
              THEN LET row == [rows[c.id] EXCEPT !.tag = c.sent.tag]
                   IN  /\ rows' = [rows EXCEPT ![c.id] = row]
                       /\ Answer(s, "ok", Null, <<row>>)
                       /\ UNCHANGED nextId
              ELSE Answer(s, "err", NoRowError, <<>>) /\ UNCHANGED <<rows, nextId>>
         [] c.kind = "delete" ->
              /\ rows' = [j \in {k \in DOMAIN rows : ~(k = c.id /\ Owned(k, c.user))}
                            |-> rows[j]]
              /\ Answer(s, "ok", Null, <<>>)
              /\ UNCHANGED nextId
    /\ lastEvt' = Evt("server", s, NoCall)
    /\ UNCHANGED <<view, statusFilter, sortBy, clock>>
    /\ UNCHANGED <<rev, importCandidates, importLoading, cache, profileCalls, session, tasks, error, loading, saving, profileName, restored,
                   authLeft, nextSeq, callsLeft>>

(***************************************************************************)
(* Priority/status revision (src/unnamed/part_002): values.                *)
(***************************************************************************)
Priorities == {"low", "medium", "high"}
Statuses == {"open", "in_progress", "blocked", "completed"}
\* A JavaScript value read from the cached JSON: its typeof and its content.
\* A createdAt string is modelled by the time it denotes, the empty string by 0.
JS(t, v) == [t |-> t, v |-> v]

Missing == JS("undefined", Null)

JSNull == JS("null", Null)

Entry(title, completed, createdAt, dueDate, priority, status) ==
    JS("object", [title |-> title, completed |-> completed, createdAt |-> createdAt,
                  dueDate |-> dueDate, priority |-> priority, status |-> status])

\* what localStorage can hold under STORAGE_KEY when the client starts
CachedEntries ==
    << JS("number", 7),
       Entry(JS("string", <<" ">>), JS("boolean", TRUE), JS("string", 1),
             Missing, JS("string", "high"), JS("string", "open")),
       Entry(JS("string", <<" ", "a">>), JS("boolean", TRUE), JS("string", 0),
             JS("string", "soon"), JS("number", 3), JS("string", "blocked")),
       Entry(JS("string", <<"a">>), Missing, JS("string", 2),
             JS("string", "2024-05-01"), JS("string", "low"), JS("string", "completed")) >>

InitCaches == {NoCache, JS("invalid json", Null), JS("object", Null), JS("array", CachedEntries)}

\* the store of the priority/status revision before the client starts; its
\* rows were written by other clients and need not be normalised
InitRowsPS ==
    (1 :> [id |-> 1, user_id |-> "u1", text |-> <<"a">>, completed |-> FALSE,
           created_at |-> 1, due_date |-> "2024-05-01", priority |-> "low",
           status |-> "completed"])
 @@ (2 :> [id |-> 2, user_id |-> "u1", text |-> <<"a">>, completed |-> TRUE,
           created_at |-> 2, due_date |-> Null, priority |-> "high",
           status |-> "in_progress"])
 @@ (3 :> [id |-> 3, user_id |-> "u2", text |-> <<"a">>, completed |-> FALSE,
           created_at |-> 3, due_date |-> Null, priority |-> "medium",
           status |-> "open"])

\* what the user can have in the new-task form of this revision
NewTaskInputsPS ==
    { [title |-> <<" ">>, due |-> Null, priority |-> "medium", status |-> "open"],
      [title |-> <<" ", "a">>, due |-> Null, priority |-> "medium", status |-> "blocked"],
      [title |-> <<"a">>, due |-> "2024-05-01", priority |-> "high",
       status |-> "completed"] }

(***************************************************************************)
(* Priority/status revision: pure helpers.                                 *)
(***************************************************************************)
isPriority(value) == value.t = "string" /\ value.v \in Priorities

isStatus(value) == value.t = "string" /\ value.v \in Statuses

\* mutant: a not-completed task with status 'completed' becomes completed
\* with status 'open'
normalizeSwapped(completed, status) ==
    IF completed THEN [completed |-> TRUE, status |-> "completed"]
    ELSE IF status = "completed" THEN [completed |-> TRUE, status |-> "open"]
    ELSE [completed |-> FALSE, status |-> status]

\* mutant: the pair is passed through as it is
normalizeNothing(completed, status) == [completed |-> completed, status |-> status]

normalizeTaskState(completed, status) ==
    IF completed THEN [completed |-> TRUE, status |-> "completed"]
    ELSE IF status = "completed" THEN [completed |-> FALSE, status |-> "open"]
    ELSE [completed |-> FALSE, status |-> status]

toAppTaskPS(row) ==
    LET normalized == normalizeTaskState(row.completed, row.status)
    IN  [id |-> row.id, title |-> row.text, completed |-> normalized.completed,
         createdAt |-> row.created_at, dueDate |-> row.due_date,
         priority |-> row.priority, status |-> normalized.status]

\* !Number.isNaN(new Date(`${s}T00:00:00`).getTime())
IsDateString(v) == v \in DueDates \ {Null}

\* toImportableTask when new Date() gives the time now
toImportableTaskAt(value, now) ==
    IF value.t # "object" THEN JSNull
    ELSE LET raw == value.v
             title == IF raw.title.t = "string" THEN trim(raw.title.v) ELSE <<>>
             completed == IF raw.completed.t = "boolean" THEN raw.completed.v ELSE FALSE
             createdAt == IF raw.createdAt.t = "string" /\ raw.createdAt.v # 0
                          THEN raw.createdAt.v ELSE now
             dueDate == IF raw.dueDate.t = "string" /\ IsDateString(raw.dueDate.v)
                        THEN raw.dueDate.v ELSE Null
             priority == IF isPriority(raw.priority) THEN raw.priority.v ELSE "medium"
             status == IF isStatus(raw.status) THEN raw.status.v
                       ELSE IF completed THEN "completed" ELSE "open"
             normalized == normalizeTaskState(completed, status)
         IN  IF title = <<>> THEN JSNull
             ELSE [title |-> title, completed |-> normalized.completed,
                   createdAt |-> createdAt, dueDate |-> dueDate, priority |-> priority,
                   status |-> normalized.status]

toImportableTask(value) == toImportableTaskAt(value, Now)

\* mutant: one entry that toImportableTask rejects empties the whole list
CandidatesOfAllOrNone(raw, now) ==
    IF raw = NoCache THEN <<>>
    ELSE IF raw.t # "array" THEN <<>>
    ELSE IF \E i \in 1..Len(raw.v) : toImportableTaskAt(raw.v[i], now) = JSNull THEN <<>>
    ELSE [i \in 1..Len(raw.v) |-> toImportableTaskAt(raw.v[i], now)]

\* the session effect's reading of the cache at the time now: [] unless it
\* parses to an array, then the entries toImportableTask accepts
CandidatesOf(raw, now) ==
    IF raw = NoCache THEN <<>>
    ELSE IF raw.t # "array" THEN <<>>
    ELSE SelectSeq([i \in 1..Len(raw.v) |-> toImportableTaskAt(raw.v[i], now)],
                   LAMBDA t : t # JSNull)

ReadImportCandidates == CandidatesOf(cache, Now)

\* changes.key ?? b, where changes has only the keys the caller gave
Coalesce(changes, key, b) ==
    IF key \notin DOMAIN changes THEN b
    ELSE IF changes[key] = Null THEN b
    ELSE changes[key]

\* what the controls of one task row can pass to updateTask: the checkbox, the
\* date input, the priority select and the status select, each on a change
ChangeInputs(task) ==
    {[completed |-> ~task.completed]}
    \cup {[dueDate |-> d] : d \in DueDates \ {task.dueDate}}
    \cup {[priority |-> p] : p \in Priorities \ {task.priority}}
    \cup {[status |-> st] : st \in Statuses \ {task.status}}

\* tasks.find((task) => task.id === id)
FindById(list, id) ==
    list[CHOOSE i \in 1..Len(list) :
            list[i].id = id /\ \A j \in 1..(i - 1) : list[j].id # id]

\* updateTask: the record sent with .update(...)
UpdatePayload(current, changes) ==
    LET nextCompleted == IF "completed" \in DOMAIN changes THEN changes.completed
                         ELSE current.completed
        nextStatus == Coalesce(changes, "status", current.status)
        normalized == normalizeTaskState(nextCompleted, nextStatus)
    IN  [completed |-> normalized.completed, status |-> normalized.status,
         due_date |-> Coalesce(changes, "dueDate", current.dueDate),
         priority |-> Coalesce(changes, "priority", current.priority)]

\* addTask: the record sent with .insert(...)
InsertPayloadPS(trimmed, due, priority, status, uid) ==
    LET normalized == normalizeTaskState(status = "completed", status)
    IN  [user_id |-> uid, text |-> trimmed, completed |-> normalized.completed,
         created_at |-> Now, due_date |-> due, priority |-> priority,
         status |-> normalized.status]

\* importLocalTasks: the records sent with .insert(payload)
ImportPayload(candidates, uid) ==
    [i \in 1..Len(candidates) |->
        [user_id |-> uid, text |-> candidates[i].title,
         completed |-> candidates[i].completed, created_at |-> candidates[i].createdAt,
         due_date |-> candidates[i].dueDate, priority |-> candidates[i].priority,
         status |-> candidates[i].status]]

\* mutant: the returned row is not put into the list
confirmNothingPS(list, c) == list

\* updateTask, success: setTasks(prev.map(... toAppTask(updated) ...))
confirmUpdatePS(list, c) == ReplaceById(list, c.id, toAppTaskPS(c.data[1]))

\* addTask, success: setTasks((prev) => [toAppTask(inserted), ...prev])
insertAtHeadPS(list, c) == <<toAppTaskPS(c.data[1])>> \o list

(***************************************************************************)
(* Priority/status revision: session restore, notifications and the        *)
(* effect on session?.user.id, which React runs after the render that a    *)
(* change of the user id causes.                                           *)
(***************************************************************************)
\* mutant: the effect runs after every notification
UserIdChangedAlways(next) == TRUE

\* the effect's dependency session?.user.id differs from the last render's
UserIdChanged(next) == next # session

\* the effect: clear, or loadTasks and read the cached list
SessionEffect(next) ==
    IF next = NoSession
    THEN /\ tasks' = <<>>
         /\ importCandidates' = <<>>
         /\ UNCHANGED <<loading, calls, nextSeq>>
    ELSE /\ loading' = TRUE
         /\ Issue(Call("load", next, 0, <<>>, NoCall))
         /\ nextSeq' = nextSeq + 1
         /\ importCandidates' = ReadImportCandidates
         /\ UNCHANGED tasks

getSessionResolvedPS(next, failed) ==
    /\ rev = "ps"
    /\ ~restored
    /\ restored' = TRUE
    /\ IF failed
       THEN /\ next = NoSession
            /\ error' = Msg("Could not restore session: ", NetworkError)
            /\ UNCHANGED <<session, tasks, importCandidates, loading, calls, nextSeq>>
       ELSE /\ session' = next
            /\ IF UserIdChanged(next)
               THEN /\ SessionEffect(next)
                    /\ IF next = NoSession THEN UNCHANGED error ELSE error' = NoError
               ELSE UNCHANGED <<tasks, importCandidates, loading, calls, nextSeq, error>>
    /\ lastEvt' = Evt(IF failed THEN "getSessionFailed" ELSE "getSession", next, NoCall)
    /\ UNCHANGED <<view, statusFilter, sortBy, clock>>
    /\ UNCHANGED <<rev, saving, profileName, authLeft, callsLeft, profileCalls, rows,
                   nextId, importLoading, cache>>

onAuthStateChangePS(nextSession) ==
    /\ rev = "ps"
    /\ authLeft > 0
    /\ authLeft' = authLeft - 1
    /\ session' = nextSession
    /\ error' = NoError
    /\ IF UserIdChanged(nextSession)
       THEN SessionEffect(nextSession)
       ELSE UNCHANGED <<tasks, importCandidates, loading, calls, nextSeq>>
    /\ lastEvt' = Evt("onAuthStateChange", nextSession, NoCall)
    /\ UNCHANGED <<view, statusFilter, sortBy, clock>>
    /\ UNCHANGED <<rev, saving, profileName, restored, callsLeft, profileCalls, rows,
                   nextId, importLoading, cache>>

(***************************************************************************)
(* Priority/status revision: the handlers up to their await.               *)
(***************************************************************************)
addTaskPS(title, due, priority, status) ==
    /\ rev = "ps"
    /\ session # NoSession
    /\ IF trim(title) = <<>>
       THEN /\ error' = <<"Task title cannot be empty.">>
            /\ lastEvt' = Evt("addTask", title, NoCall)
            /\ UNCHANGED <<calls, nextSeq, callsLeft>>
       ELSE /\ CanIssue
            /\ error' = NoError
            /\ LET c == Call("insert", session, 0, <<>>,
                             InsertPayloadPS(trim(title), due, priority, status, session))
               IN  Issue(c) /\ lastEvt' = Evt("addTask", title, c)
            /\ nextSeq' = nextSeq + 1
            /\ callsLeft' = callsLeft - 1
    /\ UNCHANGED <<view, statusFilter, sortBy, clock>>
    /\ UNCHANGED <<rev, session, tasks, loading, saving, profileName, restored, authLeft,
                   profileCalls, rows, nextId, importCandidates, importLoading, cache>>

updateTask(i, changes) ==
    /\ rev = "ps"
    /\ session # NoSession
    /\ ~loading
    /\ CanIssue
    /\ LET id == tasks[i].id
           current == FindById(tasks, id)
           \* changes is history: the argument the continuation's closure holds
           c == Call("update", session, id, <<current>>, UpdatePayload(current, changes))
                   @@ [changes |-> changes]
       IN  /\ Issue(c)
           /\ lastEvt' = Evt("updateTask", changes, c)
    /\ nextSeq' = nextSeq + 1
    /\ callsLeft' = callsLeft - 1
    /\ UNCHANGED <<view, statusFilter, sortBy, clock>>
    /\ UNCHANGED <<rev, session, tasks, error, loading, saving, profileName, restored,
                   authLeft, profileCalls, rows, nextId, importCandidates, importLoading,
                   cache>>

deleteTaskPS(i) ==
    /\ rev = "ps"
    /\ session # NoSession
    /\ ~loading
    /\ CanIssue
    /\ LET c == Call("delete", session, tasks[i].id, <<>>, NoCall)
       IN  /\ Issue(c)
           /\ lastEvt' = Evt("deleteTaskPS", i, c)
    /\ nextSeq' = nextSeq + 1
    /\ callsLeft' = callsLeft - 1
    /\ UNCHANGED <<view, statusFilter, sortBy, clock>>
    /\ UNCHANGED <<rev, session, tasks, error, loading, saving, profileName, restored,
                   authLeft, profileCalls, rows, nextId, importCandidates, importLoading,
                   cache>>

\* the button is rendered when completedCount > 0
clearCompleted ==
    /\ rev = "ps"
    /\ session # NoSession
    /\ \E i \in 1..Len(tasks) : tasks[i].completed
    /\ CanIssue
    /\ LET c == Call("clear", session, 0, <<>>, NoCall)
       IN  /\ Issue(c)
           /\ lastEvt' = Evt("clearCompleted", Null, c)
    /\ nextSeq' = nextSeq + 1
    /\ callsLeft' = callsLeft - 1
    /\ UNCHANGED <<view, statusFilter, sortBy, clock>>
    /\ UNCHANGED <<rev, session, tasks, error, loading, saving, profileName, restored,
                   authLeft, profileCalls, rows, nextId, importCandidates, importLoading,
                   cache>>

\* the banner is rendered when there are candidates; the button is disabled
\* while importLoading
importLocalTasks ==
    /\ rev = "ps"
    /\ session # NoSession
    /\ importCandidates # <<>>
    /\ ~importLoading
    /\ CanIssue
    /\ importLoading' = TRUE
    /\ error' = NoError
    /\ LET c == Call("import", session, 0, <<>>, ImportPayload(importCandidates, session))
       IN  /\ Issue(c)
           /\ lastEvt' = Evt("importLocalTasks", Null, c)
    /\ nextSeq' = nextSeq + 1
    /\ callsLeft' = callsLeft - 1
    /\ UNCHANGED <<view, statusFilter, sortBy, clock>>
    /\ UNCHANGED <<rev, session, tasks, loading, saving, profileName, restored, authLeft,
                   profileCalls, rows, nextId, importCandidates, cache>>

(***************************************************************************)
(* Priority/status revision: the continuations after the await.            *)
(***************************************************************************)
loadTasksResolvedPS(s) ==
    /\ rev = "ps"
    /\ s \in Pending("load")
    /\ loading' = FALSE
    /\ IF Response(s).stage = "err"
       THEN /\ error' = Msg("Could not load tasks: ", Response(s).reason)
            /\ UNCHANGED tasks
       ELSE /\ tasks' = MapSeq(Response(s).data, toAppTaskPS)
            /\ UNCHANGED error
    /\ Drop(s)
    /\ lastEvt' = Evt("loadTasksResolved", s, Response(s))
    /\ UNCHANGED <<view, statusFilter, sortBy, clock>>
    /\ UNCHANGED <<rev, session, saving, profileName, restored, authLeft, callsLeft,
                   profileCalls, nextSeq, rows, nextId, importCandidates, importLoading,
                   cache>>

addTaskResolvedPS(s) ==
    /\ rev = "ps"
    /\ s \in Pending("insert")
    /\ IF Response(s).stage = "err"
       THEN /\ error' = Msg("Could not add task: ", Response(s).reason)
            /\ UNCHANGED tasks
       ELSE /\ tasks' = insertAtHeadPS(tasks, Response(s))
            /\ UNCHANGED error
    /\ Drop(s)
    /\ lastEvt' = Evt("addTaskResolved", s, Response(s))
    /\ UNCHANGED <<view, statusFilter, sortBy, clock>>
    /\ UNCHANGED <<rev, session, loading, saving, profileName, restored, authLeft,
                   callsLeft, profileCalls, nextSeq, rows, nextId, importCandidates,
                   importLoading, cache>>

updateTaskResolved(s) ==
    /\ rev = "ps"
    /\ s \in Pending("update")
    /\ IF Response(s).stage = "err"
       THEN /\ error' = Msg("Could not update task: ", Response(s).reason)
            /\ UNCHANGED tasks
       ELSE /\ tasks' = confirmUpdatePS(tasks, Response(s))
            /\ UNCHANGED error
    /\ Drop(s)
    /\ lastEvt' = Evt("updateTaskResolved", s, Response(s))
    /\ UNCHANGED <<view, statusFilter, sortBy, clock>>
    /\ UNCHANGED <<rev, session, loading, saving, profileName, restored, authLeft,
                   callsLeft, profileCalls, nextSeq, rows, nextId, importCandidates,
                   importLoading, cache>>

deleteTaskResolvedPS(s) ==
    /\ rev = "ps"
    /\ s \in Pending("delete")
    /\ IF Response(s).stage = "err"
       THEN /\ error' = Msg("Could not delete task: ", Response(s).reason)
            /\ UNCHANGED tasks
       ELSE /\ tasks' = RemoveById(tasks, Response(s).id)
            /\ UNCHANGED error
    /\ Drop(s)
    /\ lastEvt' = Evt("deleteTaskResolvedPS", s, Response(s))
    /\ UNCHANGED <<view, statusFilter, sortBy, clock>>
    /\ UNCHANGED <<rev, session, loading, saving, profileName, restored, authLeft,
                   callsLeft, profileCalls, nextSeq, rows, nextId, importCandidates,
                   importLoading, cache>>

clearCompletedResolved(s) ==
    /\ rev = "ps"
    /\ s \in Pending("clear")
    /\ IF Response(s).stage = "err"
       THEN /\ error' = Msg("Could not clear completed tasks: ", Response(s).reason)
            /\ UNCHANGED tasks
       ELSE /\ tasks' = SelectSeq(tasks, LAMBDA t : ~t.completed)
            /\ UNCHANGED error
    /\ Drop(s)
    /\ lastEvt' = Evt("clearCompletedResolved", s, Response(s))
    /\ UNCHANGED <<view, statusFilter, sortBy, clock>>
    /\ UNCHANGED <<rev, session, loading, saving, profileName, restored, authLeft,
                   callsLeft, profileCalls, nextSeq, rows, nextId, importCandidates,
                   importLoading, cache>>

\* mutant: the cached list stays
removeNothing(stored) == stored

\* localStorage.removeItem(STORAGE_KEY)
removeItem(stored) == NoCache

\* on success the cache key is removed and loadTasks(session.user.id) starts,
\* with the session the handler closed over.  The history keeps the cache
\* and the candidates as they were when the response arrived.
importLocalTasksResolved(s) ==
    /\ rev = "ps"
    /\ s \in Pending("import")
    /\ importLoading' = FALSE
    /\ IF Response(s).stage = "err"
       THEN /\ error' = Msg("Could not import local tasks: ", Response(s).reason)
            /\ Drop(s)
            /\ UNCHANGED <<cache, importCandidates, loading, nextSeq>>
       ELSE /\ cache' = removeItem(cache)
            /\ importCandidates' = <<>>
            /\ loading' = TRUE
            /\ error' = NoError
            /\ calls' = (nextSeq :> Call("load", Response(s).user, 0, <<>>, NoCall))
                        @@ Without(s)
            /\ nextSeq' = nextSeq + 1
    /\ lastEvt' = Evt("importLocalTasksResolved",
                      [seq |-> s, cache |-> cache, candidates |-> importCandidates],
                      Response(s))
    /\ UNCHANGED <<view, statusFilter, sortBy, clock>>
    /\ UNCHANGED <<rev, session, tasks, saving, profileName, restored, authLeft,
                   callsLeft, profileCalls, rows, nextId>>

(***************************************************************************)
(* The store handles one call of the priority/status revision.  It stores  *)
(* what it is sent.                                                        *)
(***************************************************************************)
RowOfPS(id, sent) ==
    [id |-> id, user_id |-> sent.user_id, text |-> sent.text,
     completed |-> sent.completed, created_at |-> sent.created_at,
     due_date |-> sent.due_date, priority |-> sent.priority, status |-> sent.status]

ServerHandlePS(s) ==
    /\ rev = "ps"
    /\ s \in DOMAIN calls
    /\ calls[s].stage = "sent"
    /\ LET c == calls[s] IN
       CASE c.kind = "load" ->
              Answer(s, "ok", Null, SelectTasks(c.user)) /\ UNCHANGED <<rows, nextId>>
         [] c.kind = "insert" ->
              /\ rows' = (nextId :> RowOfPS(nextId, c.sent)) @@ rows
              /\ nextId' = nextId + 1
              /\ Answer(s, "ok", Null, <<RowOfPS(nextId, c.sent)>>)
         [] c.kind = "import" ->
              /\ rows' = [j \in (nextId..(nextId + Len(c.sent) - 1)) |->
                             RowOfPS(j, c.sent[j - nextId + 1])] @@ rows
              /\ nextId' = nextId + Len(c.sent)
              /\ Answer(s, "ok", Null, <<>>)
         [] c.kind = "update" ->
              IF Owned(c.id, c.user)
              THEN LET row == [rows[c.id] EXCEPT !.completed = c.sent.completed,
                                                 !.status = c.sent.status,
                                                 !.due_date = c.sent.due_date,
                                                 !.priority = c.sent.priority]
                   IN  /\ rows' = [rows EXCEPT ![c.id] = row]
                       /\ Answer(s, "ok", Null, <<row>>)
                       /\ UNCHANGED nextId
              ELSE Answer(s, "err", NoRowError, <<>>) /\ UNCHANGED <<rows, nextId>>
         [] c.kind = "delete" ->
              /\ rows' = [j \in {k \in DOMAIN rows : ~(k = c.id /\ Owned(k, c.user))}
                            |-> rows[j]]
              /\ Answer(s, "ok", Null, <<>>)
              /\ UNCHANGED nextId
         [] c.kind = "clear" ->
              /\ rows' = [j \in {k \in DOMAIN rows :
                                    ~(rows[k].user_id = c.user /\ rows[k].completed)}
                            |-> rows[j]]
              /\ Answer(s, "ok", Null, <<>>)
              /\ UNCHANGED nextId
    /\ lastEvt' = Evt("server", s, NoCall)
    /\ UNCHANGED <<view, statusFilter, sortBy, clock>>
    /\ UNCHANGED <<session, tasks, error, loading, saving, profileName, restored,
                   authLeft, callsLeft, profileCalls, nextSeq, importCandidates,
                   importLoading, cache, rev>>

(***************************************************************************)
(* Dates.  A Date is the number of its local calendar day, counted from    *)
(* 2024-04-28 (day 0); the time of day is kept only where a due-date text  *)
(* carries one.  A date key 'YYYY-MM-DD' is the triple of its three        *)
(* zero-padded fields; no key is <<>>.                                     *)
(***************************************************************************)
Days == 0..MaxDay

\* the client's time zone: UTC, or east of it by more than half an hour
Zones == {"utc", "east"}

NoKey == <<>>

\* the texts a due date can have in a task: none, dates as the date input
\* and a date column give them, and a timestamp as a timestamp column gives it
DueTexts ==
    {Null, "2024-04-30", "2024-05-01", "2024-05-08", "2025-01-01",
     "2024-04-30T23:30:00+00:00"}

\* dueDate.match(/^(\d{4})-(\d{2})-(\d{2})$/): the three groups, or <<>>
matchDateOnly(dueDate) ==
    CASE dueDate = "2024-04-30" -> <<2024, 4, 30>>
      [] dueDate = "2024-05-01" -> <<2024, 5, 1>>
      [] dueDate = "2024-05-08" -> <<2024, 5, 8>>
      [] dueDate = "2025-01-01" -> <<2025, 1, 1>>
      [] OTHER -> <<>>

\* new Date(text) in the zone: <<the local day>>, or <<>> for an Invalid Date.
\* 23:30 UTC is already the next day east of UTC.
parseDate(text, zone) ==
    CASE text = "2024-04-30T23:30:00+00:00" -> IF zone = "east" THEN <<3>> ELSE <<2>>
      [] OTHER -> <<>>

\* dueDate.replace(' ', 'T'): none of the texts has a blank
replaceBlank(text) == text

getFullYear(date) == 2024

\* date.getMonth() + 1
getMonth1(date) == IF date <= 2 THEN 4 ELSE IF date <= 33 THEN 5 ELSE 6

getDate(date) == IF date <= 2 THEN date + 28 ELSE IF date <= 33 THEN date - 2 ELSE date - 33

toLocalDateKey(date) == <<getFullYear(date), getMonth1(date), getDate(date)>>

addDays(date, days) == date + days

toDueDateKey(dueDate, zone) ==
    IF dueDate = Null \/ dueDate = "" THEN NoKey
    ELSE LET dateOnlyMatch == matchDateOnly(dueDate)
             parsed == parseDate(dueDate, zone)
             fallbackParsed == parseDate(replaceBlank(dueDate), zone)
         IN  IF dateOnlyMatch # <<>>
             THEN <<dateOnlyMatch[1], dateOnlyMatch[2], dateOnlyMatch[3]>>
             ELSE IF parsed # <<>> THEN toLocalDateKey(parsed[1])
             ELSE IF fallbackParsed # <<>> THEN toLocalDateKey(fallbackParsed[1])
             ELSE NoKey

\* mutant: only the day-of-month fields are compared
KeyLessByDay(a, b) == a[3] < b[3]

\* a < b on two keys as JavaScript compares strings: 'YYYY-MM-DD' texts have
\* equal length and zero-padded fields, so the first differing field decides
KeyLess(a, b) ==
    \/ a[1] < b[1]
    \/ a[1] = b[1] /\ a[2] < b[2]
    \/ a[1] = b[1] /\ a[2] = b[2] /\ a[3] < b[3]

\* a <= b
KeyLeq(a, b) == a = b \/ KeyLess(a, b)

\* the three new Date() of one render, in the order the code takes them; the
\* clock can pass midnight between two of them
ClockReads ==
    UNION {{[first |-> d, second |-> d2, third |-> d3, zone |-> z] :
               d2 \in {d, d + 1}, d3 \in {d, d + 1}, z \in Zones}
           \ {[first |-> d, second |-> d + 1, third |-> d, zone |-> z] : z \in Zones} :
           d \in Days}

(***************************************************************************)
(* Tag revision: the derived view (useMemo values of one render).          *)
(***************************************************************************)
TaskViews == {"all", "work", "personal", "overdue", "upcoming", "completed"}

todayKey(now) == toLocalDateKey(now.first)

tomorrowKey(now) == toLocalDateKey(addDays(now.second, 1))

nextWeekKey(now) == toLocalDateKey(addDays(now.third, 7))

\* mutant: a due date of today counts as overdue
tasksWithFlagsLate(list, now) ==
    [i \in 1..Len(list) |->
        LET task == list[i]
            dueDateKey == toDueDateKey(task.dueDate, now.zone)
        IN  [task |-> task,
             overdue |-> ~task.completed /\ dueDateKey # NoKey
                         /\ KeyLeq(dueDateKey, todayKey(now)),
             upcoming |-> /\ ~task.completed
                          /\ dueDateKey # NoKey
                          /\ KeyLeq(tomorrowKey(now), dueDateKey)
                          /\ KeyLeq(dueDateKey, nextWeekKey(now))]]

\* mutant: completed tasks are flagged like the others
tasksWithFlagsOfAll(list, now) ==
    [i \in 1..Len(list) |->
        LET task == list[i]
            dueDateKey == toDueDateKey(task.dueDate, now.zone)
        IN  [task |-> task,
             overdue |-> dueDateKey # NoKey /\ KeyLess(dueDateKey, todayKey(now)),
             upcoming |-> /\ dueDateKey # NoKey
                          /\ KeyLeq(tomorrowKey(now), dueDateKey)
                          /\ KeyLeq(dueDateKey, nextWeekKey(now))]]

tasksWithFlags(list, now) ==
    [i \in 1..Len(list) |->
        LET task == list[i]
            dueDateKey == toDueDateKey(task.dueDate, now.zone)
        IN  [task |-> task,
             overdue |-> ~task.completed /\ dueDateKey # NoKey
                         /\ KeyLess(dueDateKey, todayKey(now)),
             upcoming |-> /\ ~task.completed
                          /\ dueDateKey # NoKey
                          /\ KeyLeq(tomorrowKey(now), dueDateKey)
                          /\ KeyLeq(dueDateKey, nextWeekKey(now))]]

\* mutant: the view's predicate, with 'completed' showing the open tasks
viewPredicateOpen(e, v) ==
    CASE v = "all" -> TRUE
      [] v = "work" -> e.task.tag = "work"
      [] v = "personal" -> e.task.tag = "personal"
      [] v = "overdue" -> e.overdue
      [] v = "upcoming" -> e.upcoming
      [] v = "completed" -> ~e.task.completed
      [] OTHER -> TRUE

\* the callback of filteredTasksWithFlags
viewPredicate(e, v) ==
    CASE v = "all" -> TRUE
      [] v = "work" -> e.task.tag = "work"
      [] v = "personal" -> e.task.tag = "personal"
      [] v = "overdue" -> e.overdue
      [] v = "upcoming" -> e.upcoming
      [] v = "completed" -> e.task.completed
      [] OTHER -> TRUE

filteredTasksWithFlags(flagged, v) == SelectSeq(flagged, LAMBDA e : viewPredicate(e, v))

\* mutant: the counts are taken over the entries of the selected view
viewCountsOfFiltered(flagged) ==
    LET shown == filteredTasksWithFlags(flagged, view)
    IN  [all |-> Len(shown),
         work |-> Len(SelectSeq(shown, LAMBDA e : e.task.tag = "work")),
         personal |-> Len(SelectSeq(shown, LAMBDA e : e.task.tag = "personal")),
         overdue |-> Len(SelectSeq(shown, LAMBDA e : e.overdue)),
         upcoming |-> Len(SelectSeq(shown, LAMBDA e : e.upcoming)),
         completed |-> Len(SelectSeq(shown, LAMBDA e : e.task.completed))]

\* mutant: 'all' counts the open tasks
viewCountsOfOpen(flagged) ==
    [all |-> Len(SelectSeq(flagged, LAMBDA e : ~e.task.completed)),
     work |-> Len(SelectSeq(flagged, LAMBDA e : e.task.tag = "work")),
     personal |-> Len(SelectSeq(flagged, LAMBDA e : e.task.tag = "personal")),
     overdue |-> Len(SelectSeq(flagged, LAMBDA e : e.overdue)),
     upcoming |-> Len(SelectSeq(flagged, LAMBDA e : e.upcoming)),
     completed |-> Len(SelectSeq(flagged, LAMBDA e : e.task.completed))]

viewCounts(flagged) ==
    [all |-> Len(flagged),
     work |-> Len(SelectSeq(flagged, LAMBDA e : e.task.tag = "work")),
     personal |-> Len(SelectSeq(flagged, LAMBDA e : e.task.tag = "personal")),
     overdue |-> Len(SelectSeq(flagged, LAMBDA e : e.overdue)),
     upcoming |-> Len(SelectSeq(flagged, LAMBDA e : e.upcoming)),
     completed |-> Len(SelectSeq(flagged, LAMBDA e : e.task.completed))]

visibleTasks(filtered) ==
    [i \in 1..Len(filtered) |-> [task |-> filtered[i].task, overdue |-> filtered[i].overdue]]

\* the values of the render of the current state
TasksWithFlags == tasksWithFlags(tasks, clock)

ViewCounts == viewCounts(TasksWithFlags)

FilteredTasksWithFlags == filteredTasksWithFlags(TasksWithFlags, view)

VisibleTasks == visibleTasks(FilteredTasksWithFlags)

\* a sidebar button: setView(value); the component renders again.  The
\* history keeps the counts the sidebar showed when the button was pressed.
setView(v) ==
    /\ rev = "tag"
    /\ session # NoSession
    /\ v # view
    /\ view' = v
    /\ lastEvt' = Evt("setView", [view |-> v, counts |-> ViewCounts], NoCall)
    /\ UNCHANGED <<rev, session, tasks, error, loading, saving, profileName, restored,
                   authLeft, callsLeft, calls, profileCalls, nextSeq, rows, nextId,
                   importCandidates, importLoading, cache, statusFilter, sortBy, clock>>

\* a later render of the same state reads the clock again
Rerender(next) ==
    /\ next \in ClockReads
    /\ next.zone = clock.zone
    /\ next # clock
    /\ next.first \in {clock.third, clock.third + 1}
    /\ clock' = next
    /\ lastEvt' = Evt("render", next, NoCall)
    /\ UNCHANGED <<rev, session, tasks, error, loading, saving, profileName, restored,
                   authLeft, callsLeft, calls, profileCalls, nextSeq, rows, nextId,
                   importCandidates, importLoading, cache, view, statusFilter, sortBy>>

(***************************************************************************)
(* Priority/status revision: visibleTasks (view filter, status filter,     *)
(* sort) of one render.                                                    *)
(***************************************************************************)
TaskViewsPS == {"all_tasks", "my_day", "upcoming", "overdue", "completed"}

StatusFilters == {"all_statuses"} \cup Statuses

SortBys == {"due_date", "priority", "created_desc"}

PRIORITY_RANK(priority) ==
    CASE priority = "low" -> 1
      [] priority = "medium" -> 2
      [] priority = "high" -> 3

\* the first ten characters of a due-date text as a key, and whether more
\* characters follow
textPrefix(dueDate) ==
    CASE dueDate = "2024-04-30" -> [key |-> <<2024, 4, 30>>, more |-> FALSE]
      [] dueDate = "2024-05-01" -> [key |-> <<2024, 5, 1>>, more |-> FALSE]
      [] dueDate = "2024-05-08" -> [key |-> <<2024, 5, 8>>, more |-> FALSE]
      [] dueDate = "2025-01-01" -> [key |-> <<2025, 1, 1>>, more |-> FALSE]
      [] dueDate = "2024-04-30T23:30:00+00:00" -> [key |-> <<2024, 4, 30>>, more |-> TRUE]

\* task.dueDate < key as JavaScript compares strings: a text that continues
\* after the ten characters of an equal key is the greater one
textLess(dueDate, key) == KeyLess(textPrefix(dueDate).key, key)

\* task.dueDate === key
textEqual(dueDate, key) == textPrefix(dueDate).key = key /\ ~textPrefix(dueDate).more

\* new Date(task.dueDate).getTime(), in minutes from 2024-04-28T00:00Z: a
\* date-only text is midnight UTC of its day
dueTime(dueDate) ==
    CASE dueDate = "2024-04-30" -> 2 * 1440
      [] dueDate = "2024-05-01" -> 3 * 1440
      [] dueDate = "2024-05-08" -> 10 * 1440
      [] dueDate = "2025-01-01" -> 248 * 1440
      [] dueDate = "2024-04-30T23:30:00+00:00" -> 2 * 1440 + 1410

\* new Date(task.createdAt).getTime(): createdAt is modelled by its time
createdTime(createdAt) == createdAt

\* mutant: a task without due date is placed after any other, asked first
compareNullAsked(a, b, by) ==
    LET created == createdTime(b.createdAt) - createdTime(a.createdAt)
    IN  IF by = "due_date"
        THEN IF a.dueDate = Null THEN 1
             ELSE IF b.dueDate = Null THEN 0 - 1
             ELSE LET dueDiff == dueTime(a.dueDate) - dueTime(b.dueDate)
                  IN  IF dueDiff # 0 THEN dueDiff ELSE created
        ELSE IF by = "priority"
        THEN LET priorityDiff == PRIORITY_RANK(b.priority) - PRIORITY_RANK(a.priority)
             IN  IF priorityDiff # 0 THEN priorityDiff ELSE created
        ELSE created

\* mutant: tasks without due date first
compareNullsFirst(a, b, by) ==
    LET created == createdTime(b.createdAt) - createdTime(a.createdAt)
    IN  IF by = "due_date"
        THEN IF a.dueDate = Null /\ b.dueDate = Null THEN created
             ELSE IF a.dueDate = Null THEN 0 - 1
             ELSE IF b.dueDate = Null THEN 1
             ELSE LET dueDiff == dueTime(a.dueDate) - dueTime(b.dueDate)
                  IN  IF dueDiff # 0 THEN dueDiff ELSE created
        ELSE IF by = "priority"
        THEN LET priorityDiff == PRIORITY_RANK(b.priority) - PRIORITY_RANK(a.priority)
             IN  IF priorityDiff # 0 THEN priorityDiff ELSE created
        ELSE created

\* the callback of sort
compare(a, b, by) ==
    LET created == createdTime(b.createdAt) - createdTime(a.createdAt)
    IN  IF by = "due_date"
        THEN IF a.dueDate = Null /\ b.dueDate = Null THEN created
             ELSE IF a.dueDate = Null THEN 1
             ELSE IF b.dueDate = Null THEN 0 - 1
             ELSE LET dueDiff == dueTime(a.dueDate) - dueTime(b.dueDate)
                  IN  IF dueDiff # 0 THEN dueDiff ELSE created
        ELSE IF by = "priority"
        THEN LET priorityDiff == PRIORITY_RANK(b.priority) - PRIORITY_RANK(a.priority)
             IN  IF priorityDiff # 0 THEN priorityDiff ELSE created
        ELSE created

\* Array.prototype.sort is stable: an element goes before the first element
\* already placed that the callback puts after it
RECURSIVE insertSorted(_, _, _)
insertSorted(x, sorted, by) ==
    IF sorted = <<>> THEN <<x>>
    ELSE IF compare(Head(sorted), x, by) > 0 THEN <<x>> \o sorted
    ELSE <<Head(sorted)>> \o insertSorted(x, Tail(sorted), by)

RECURSIVE sort(_, _)
sort(list, by) ==
    IF list = <<>> THEN <<>>
    ELSE insertSorted(list[Len(list)], sort(SubSeq(list, 1, Len(list) - 1), by), by)

\* the callback of tasks.filter
viewFilter(task, v, today) ==
    LET todayKeyPS == toLocalDateKey(today)
        tomorrowKeyPS == toLocalDateKey(today + 1)
        plusSevenKey == toLocalDateKey(today + 7)
    IN  IF v = "all_tasks" THEN TRUE
        ELSE IF v = "completed" THEN task.completed
        ELSE IF task.completed \/ task.dueDate = Null \/ task.dueDate = "" THEN FALSE
        ELSE IF v = "overdue" THEN textLess(task.dueDate, todayKeyPS)
        ELSE IF v = "my_day"
        THEN textEqual(task.dueDate, todayKeyPS) \/ textLess(task.dueDate, todayKeyPS)
        ELSE IF v = "upcoming"
        THEN /\ ~textLess(task.dueDate, tomorrowKeyPS)
             /\ (textLess(task.dueDate, plusSevenKey) \/ textEqual(task.dueDate, plusSevenKey))
        ELSE TRUE

visibleTasksPS(list, v, filter, by, today) ==
    LET viewFiltered == SelectSeq(list, LAMBDA task : viewFilter(task, v, today))
        statusFiltered == IF filter = "all_statuses" THEN viewFiltered
                          ELSE SelectSeq(viewFiltered, LAMBDA task : task.status = filter)
    IN  sort(statusFiltered, by)

\* the value of the render of the current state; this revision reads the
\* clock once
VisibleTasksPS == visibleTasksPS(tasks, view, statusFilter, sortBy, clock.first)

\* a sidebar button: setView(value)
setViewPS(v) ==
    /\ rev = "ps"
    /\ session # NoSession
    /\ v # view
    /\ view' = v
    /\ lastEvt' = Evt("setView", v, NoCall)
    /\ UNCHANGED <<rev, session, tasks, error, loading, saving, profileName, restored,
                   authLeft, callsLeft, calls, profileCalls, nextSeq, rows, nextId,
                   importCandidates, importLoading, cache, statusFilter, sortBy, clock>>

\* the status select: if (isStatusFilter(value)) setStatusFilter(value)
setStatusFilter(value) ==
    /\ rev = "ps"
    /\ session # NoSession
    /\ value \in StatusFilters
    /\ value # statusFilter
    /\ statusFilter' = value
    /\ lastEvt' = Evt("setStatusFilter", value, NoCall)
    /\ UNCHANGED <<rev, session, tasks, error, loading, saving, profileName, restored,
                   authLeft, callsLeft, calls, profileCalls, nextSeq, rows, nextId,
                   importCandidates, importLoading, cache, view, sortBy, clock>>

\* the sort select: if (isSortBy(value)) setSortBy(value)
setSortBy(value) ==
    /\ rev = "ps"
    /\ session # NoSession
    /\ value \in SortBys
    /\ value # sortBy
    /\ sortBy' = value
    /\ lastEvt' = Evt("setSortBy", value, NoCall)
    /\ UNCHANGED <<rev, session, tasks, error, loading, saving, profileName, restored,
                   authLeft, callsLeft, calls, profileCalls, nextSeq, rows, nextId,
                   importCandidates, importLoading, cache, view, statusFilter, clock>>

(***************************************************************************)
(* Specifications.                                                         *)
(***************************************************************************)
\* the render of 2024-05-01 in UTC
InitClock == [first |-> 3, second |-> 3, third |-> 3, zone |-> "utc"]

\* useState defaults of the view controls; the tag revision has no status
\* filter and no sort control
InitView ==
    /\ view = IF rev = "tag" THEN "all" ELSE "all_tasks"
    /\ statusFilter = IF rev = "tag" THEN Null ELSE "all_statuses"
    /\ sortBy = IF rev = "tag" THEN Null ELSE "created_desc"
    /\ clock = InitClock

InitCommon ==
    /\ InitView
    /\ session = NoSession
    /\ tasks = <<>>
    /\ error = NoError
    /\ loading = FALSE
    /\ saving = FALSE
    /\ profileName = Null
    /\ restored = FALSE
    /\ calls = [s \in {} |-> NoCall]
    /\ profileCalls = [u \in Users |-> 0]
    /\ importCandidates = <<>>
    /\ importLoading = FALSE
    /\ nextSeq = 1
    /\ nextId = Cardinality(DOMAIN InitRows) + 1
    /\ lastEvt = [op |-> "init", input |-> Null, call |-> NoCall, before |-> <<>>,
                  saving |-> FALSE, user |-> NoSession, issued |-> 1]

InitTag ==
    /\ rev = "tag"
    /\ rows = InitRows
    /\ cache = NoCache
    /\ authLeft = MaxAuthEvents
    /\ callsLeft = MaxSessionCalls
    /\ InitCommon

NextTag ==
    \/ \E next \in Users \cup {NoSession} : getSessionResolved(next, FALSE)
    \/ getSessionResolved(NoSession, TRUE)
    \/ \E next \in Users \cup {NoSession} : onAuthStateChange(next)
    \/ \E failed \in BOOLEAN : logout(failed)
    \/ \E in \in NewTaskInputs : addTask(in.title, in.due, in.tag)
    \/ \E i \in 1..Len(tasks) : toggleTask(i)
    \/ \E i \in 1..Len(tasks) : deleteTask(i)
    \/ \E i \in 1..Len(tasks), nextTag \in TaskTags : updateTaskTag(i, nextTag)
    \/ \E s \in DOMAIN calls : loadTasksResolved(s)
    \/ \E uid \in Users, failed \in BOOLEAN : loadProfileResolved(uid, failed)
    \/ \E s \in DOMAIN calls : addTaskResolved(s)
    \/ \E s \in DOMAIN calls : toggleTaskResolved(s)
    \/ \E s \in DOMAIN calls : deleteTaskResolved(s)
    \/ \E s \in DOMAIN calls : updateTaskTagResolved(s)
    \/ \E s \in DOMAIN calls : ServerHandle(s)

SpecTag == InitTag /\ [][NextTag]_vars

(***************************************************************************)
(* The tag revision from the state SpecTag reaches once the session of u1  *)
(* is restored and both loads have resolved; the session then stays as it  *)
(* is and the user works on the list.                                      *)
(***************************************************************************)
InitTagSignedIn ==
    /\ rev = "tag"
    /\ cache = NoCache
    /\ session = "u1"
    /\ rows = InitRows
    /\ tasks = MapSeq(SelectTasks("u1"), toAppTask)
    /\ error = NoError
    /\ loading = FALSE
    /\ saving = FALSE
    /\ profileName = normalizedProfileName(ProfileRow("u1"))
    /\ restored = TRUE
    /\ authLeft = 0
    /\ callsLeft = MaxCalls
    /\ calls = [s \in {} |-> NoCall]
    /\ profileCalls = [u \in Users |-> 0]
    /\ importCandidates = <<>>
    /\ importLoading = FALSE
    /\ nextSeq = 2
    /\ nextId = Cardinality(DOMAIN InitRows) + 1
    /\ lastEvt = [op |-> "loadProfileResolved", input |-> "u1", call |-> NoCall,
                  before |-> tasks, saving |-> FALSE, user |-> "u1", issued |-> 2]
    /\ InitView

NextTagSignedIn ==
    \/ \E in \in NewTaskInputs : addTask(in.title, in.due, in.tag)
    \/ \E i \in 1..Len(tasks) : toggleTask(i)
    \/ \E i \in 1..Len(tasks) : deleteTask(i)
    \/ \E i \in 1..Len(tasks), nextTag \in TaskTags : updateTaskTag(i, nextTag)
    \/ \E s \in DOMAIN calls : addTaskResolved(s)
    \/ \E s \in DOMAIN calls : toggleTaskResolved(s)
    \/ \E s \in DOMAIN calls : deleteTaskResolved(s)
    \/ \E s \in DOMAIN calls : updateTaskTagResolved(s)
    \/ \E s \in DOMAIN calls : ServerHandle(s)

SpecTagSignedIn == InitTagSignedIn /\ [][NextTagSignedIn]_vars

(***************************************************************************)
(* The priority/status revision from construction.                         *)
(***************************************************************************)
InitPS ==
    /\ rev = "ps"
    /\ rows = InitRowsPS
    /\ cache \in InitCaches
    /\ authLeft = MaxAuthEvents
    /\ callsLeft = MaxSessionCalls
    /\ InitCommon

NextPS ==
    \/ \E next \in Users \cup {NoSession} : getSessionResolvedPS(next, FALSE)
    \/ getSessionResolvedPS(NoSession, TRUE)
    \/ \E next \in Users \cup {NoSession} : onAuthStateChangePS(next)
    \/ \E in \in NewTaskInputsPS : addTaskPS(in.title, in.due, in.priority, in.status)
    \/ \E i \in 1..Len(tasks) : \E changes \in ChangeInputs(tasks[i]) : updateTask(i, changes)
    \/ \E i \in 1..Len(tasks) : deleteTaskPS(i)
    \/ clearCompleted
    \/ importLocalTasks
    \/ \E s \in DOMAIN calls : loadTasksResolvedPS(s)
    \/ \E s \in DOMAIN calls : addTaskResolvedPS(s)
    \/ \E s \in DOMAIN calls : updateTaskResolved(s)
    \/ \E s \in DOMAIN calls : deleteTaskResolvedPS(s)
    \/ \E s \in DOMAIN calls : clearCompletedResolved(s)
    \/ \E s \in DOMAIN calls : importLocalTasksResolved(s)
    \/ \E s \in DOMAIN calls : ServerHandlePS(s)

SpecPS == InitPS /\ [][NextPS]_vars

(***************************************************************************)
(* The priority/status revision from the state SpecPS reaches once the     *)
(* session of u1 is restored, the session effect has read the cache and    *)
(* the load has resolved; the session then stays as it is and the user     *)
(* works on the list.                                                      *)
(***************************************************************************)
InitPSSignedIn ==
    /\ rev = "ps"
    /\ cache \in {NoCache, JS("array", CachedEntries)}
    /\ session = "u1"
    /\ rows = InitRowsPS
    /\ tasks = MapSeq(SelectTasks("u1"), toAppTaskPS)
    /\ error = NoError
    /\ loading = FALSE
    /\ saving = FALSE
    /\ profileName = Null
    /\ restored = TRUE
    /\ authLeft = 0
    /\ callsLeft = MaxCalls
    /\ calls = [s \in {} |-> NoCall]
    /\ profileCalls = [u \in Users |-> 0]
    /\ importCandidates = CandidatesOf(cache, InitTime + 1)
    /\ importLoading = FALSE
    /\ nextSeq = 2
    /\ nextId = Cardinality(DOMAIN InitRowsPS) + 1
    /\ lastEvt = [op |-> "loadTasksResolved", input |-> 1,
                  call |-> [kind |-> "load", seq |-> 1, user |-> "u1", id |-> 0,
                            previous |-> <<>>, sent |-> NoCall, stage |-> "ok",
                            reason |-> Null, data |-> SelectTasks("u1"), seen |-> {}],
                  before |-> <<>>, saving |-> FALSE, user |-> "u1", issued |-> 2]
    /\ InitView

NextPSSignedIn ==
    \/ \E in \in NewTaskInputsPS : addTaskPS(in.title, in.due, in.priority, in.status)
    \/ \E i \in 1..Len(tasks) : \E changes \in ChangeInputs(tasks[i]) : updateTask(i, changes)
    \/ \E i \in 1..Len(tasks) : deleteTaskPS(i)
    \/ clearCompleted
    \/ importLocalTasks
    \/ \E s \in DOMAIN calls : loadTasksResolvedPS(s)
    \/ \E s \in DOMAIN calls : addTaskResolvedPS(s)
    \/ \E s \in DOMAIN calls : updateTaskResolved(s)
    \/ \E s \in DOMAIN calls : deleteTaskResolvedPS(s)
    \/ \E s \in DOMAIN calls : clearCompletedResolved(s)
    \/ \E s \in DOMAIN calls : importLocalTasksResolved(s)
    \/ \E s \in DOMAIN calls : ServerHandlePS(s)

SpecPSSignedIn == InitPSSignedIn /\ [][NextPSSignedIn]_vars

(***************************************************************************)
(* The tag revision's view of a loaded list: u1 is signed in, the load of  *)
(* some store has resolved, and the user switches views while time passes. *)
(***************************************************************************)
ViewRows(id, dues) ==
    {[id |-> id, user_id |-> "u1", text |-> <<"a">>, completed |-> c,
      created_at |-> id, due_date |-> d, tag |-> t] :
        c \in BOOLEAN, d \in dues, t \in TaskTags}

\* stores of at most MaxViewTasks rows
ViewStores ==
    UNION {IF n = 0 THEN {[k \in {} |-> NoCall]}
           ELSE {[k \in 1..n |-> IF k = n THEN newest
                                  ELSE [older EXCEPT !.id = k, !.created_at = k]] :
                    newest \in ViewRows(n, DueTexts), older \in ViewRows(0, DueDates)} :
           n \in 0..MaxViewTasks}

InitViewTag ==
    /\ rev = "tag"
    /\ cache = NoCache
    /\ session = "u1"
    /\ rows \in ViewStores
    /\ tasks = MapSeq(SelectTasks("u1"), toAppTask)
    /\ error = NoError
    /\ loading = FALSE
    /\ saving = FALSE
    /\ profileName = normalizedProfileName(ProfileRow("u1"))
    /\ restored = TRUE
    /\ authLeft = 0
    /\ callsLeft = 0
    /\ calls = [s \in {} |-> NoCall]
    /\ profileCalls = [u \in Users |-> 0]
    /\ importCandidates = <<>>
    /\ importLoading = FALSE
    /\ nextSeq = 2
    /\ nextId = Cardinality(DOMAIN rows) + 1
    /\ lastEvt = [op |-> "loadProfileResolved", input |-> "u1", call |-> NoCall,
                  before |-> tasks, saving |-> FALSE, user |-> "u1", issued |-> 2]
    /\ view = "all"
    /\ statusFilter = Null
    /\ sortBy = Null
    /\ clock \in ClockReads

NextViewTag ==
    \/ \E v \in TaskViews : setView(v)
    \/ \E next \in ClockReads : Rerender(next)

SpecViewTag == InitViewTag /\ [][NextViewTag]_vars

(***************************************************************************)
(* The priority/status revision's visible list of a loaded list: u1 is     *)
(* signed in, the load of some store has resolved, and the user works the  *)
(* view, status and sort controls.                                         *)
(***************************************************************************)
SortRow(due, priority, created, completed, status) ==
    [id |-> 0, user_id |-> "u1", text |-> <<"a">>, completed |-> completed,
     created_at |-> created, due_date |-> due, priority |-> priority, status |-> status]

\* what a row of such a store can hold, but for its id
SortRows ==
    { SortRow(Null, "low", 1, FALSE, "open"),
      SortRow(Null, "high", 2, FALSE, "blocked"),
      SortRow("2024-05-01", "low", 2, TRUE, "completed"),
      SortRow("2024-05-01", "high", 1, FALSE, "in_progress"),
      SortRow("2024-04-30T23:30:00+00:00", "medium", 2, FALSE, "open") }

\* stores of at most MaxSortTasks rows
SortStores ==
    UNION {{[k \in 1..n |-> [f[k] EXCEPT !.id = k]] : f \in [1..n -> SortRows]} :
           n \in 0..MaxSortTasks}

InitViewPS ==
    /\ rev = "ps"
    /\ cache = NoCache
    /\ session = "u1"
    /\ rows \in SortStores
    /\ tasks = MapSeq(SelectTasks("u1"), toAppTaskPS)
    /\ error = NoError
    /\ loading = FALSE
    /\ saving = FALSE
    /\ profileName = Null
    /\ restored = TRUE
    /\ authLeft = 0
    /\ callsLeft = 0
    /\ calls = [s \in {} |-> NoCall]
    /\ profileCalls = [u \in Users |-> 0]
    /\ importCandidates = <<>>
    /\ importLoading = FALSE
    /\ nextSeq = 2
    /\ nextId = Cardinality(DOMAIN rows) + 1
    /\ lastEvt = [op |-> "loadTasksResolved", input |-> 1,
                  call |-> [kind |-> "load", seq |-> 1, user |-> "u1", id |-> 0,
                            previous |-> <<>>, sent |-> NoCall, stage |-> "ok",
                            reason |-> Null, data |-> SelectTasks("u1"), seen |-> {}],
                  before |-> <<>>, saving |-> FALSE, user |-> "u1", issued |-> 2]
    /\ InitView

NextViewPS ==
    \/ \E v \in TaskViewsPS : setViewPS(v)
    \/ \E value \in StatusFilters : setStatusFilter(value)
    \/ \E value \in SortBys : setSortBy(value)

SpecViewPS == InitViewPS /\ [][NextViewPS]_vars

(***************************************************************************)
(* The priority/status revision from the same state, with session changes: *)
(* the user works on the list and imports while the session can still be   *)
(* replaced or end.                                                        *)
(***************************************************************************)
InitPSSession ==
    /\ rev = "ps"
    /\ cache \in {NoCache, JS("array", CachedEntries)}
    /\ session = "u1"
    /\ rows = InitRowsPS
    /\ tasks = MapSeq(SelectTasks("u1"), toAppTaskPS)
    /\ error = NoError
    /\ loading = FALSE
    /\ saving = FALSE
    /\ profileName = Null
    /\ restored = TRUE
    /\ authLeft = MaxAuthEvents
    /\ callsLeft = MaxCalls
    /\ calls = [s \in {} |-> NoCall]
    /\ profileCalls = [u \in Users |-> 0]
    /\ importCandidates = CandidatesOf(cache, InitTime + 1)
    /\ importLoading = FALSE
    /\ nextSeq = 2
    /\ nextId = Cardinality(DOMAIN InitRowsPS) + 1
    /\ lastEvt = [op |-> "loadTasksResolved", input |-> 1,
                  call |-> [kind |-> "load", seq |-> 1, user |-> "u1", id |-> 0,
                            previous |-> <<>>, sent |-> NoCall, stage |-> "ok",
                            reason |-> Null, data |-> SelectTasks("u1"), seen |-> {}],
                  before |-> <<>>, saving |-> FALSE, user |-> "u1", issued |-> 2]
    /\ InitView

NextPSSession ==
    \/ NextPSSignedIn
    \/ \E next \in Users \cup {NoSession} : onAuthStateChangePS(next)

SpecPSSession == InitPSSession /\ [][NextPSSession]_vars

(***************************************************************************)
(* Either revision from construction.                                      *)
(***************************************************************************)
Next ==
    \/ rev = "tag" /\ NextTag
    \/ rev = "ps" /\ NextPS

Spec == (InitTag \/ InitPS) /\ [][Next]_vars

(***************************************************************************)
(* What the claims read from the history.                                  *)
(***************************************************************************)
Others(list, id) == SelectSeq(list, LAMBDA t : t.id # id)

Records(list, id) == {list[i] : i \in {j \in 1..Len(list) : list[j].id = id}}

Resolved(ops) == lastEvt.op \in ops

Failed == lastEvt.call.stage = "err"

InFlightNow(c) == c.seq \in DOMAIN calls /\ calls[c.seq].stage = "sent"

\* the task a row of the tag revision stands for, written out
TaskOfRow(row) ==
    [id |-> row.id, title |-> row.text, completed |-> row.completed,
     createdAt |-> row.created_at, dueDate |-> row.due_date,
     tag |-> IF row.tag \in {"work", "personal"} THEN row.tag ELSE Null]

\* the task a row of the priority/status revision stands for, written out
TaskOfRowPS(row) ==
    [id |-> row.id, title |-> row.text, completed |-> row.completed,
     createdAt |-> row.created_at, dueDate |-> row.due_date, priority |-> row.priority,
     status |-> IF row.completed THEN "completed"
                ELSE IF row.status = "completed" THEN "open" ELSE row.status]

TaskOf(row) == IF rev = "tag" THEN TaskOfRow(row) ELSE TaskOfRowPS(row)

Blank(title) == \A i \in 1..Len(title) : title[i] = " "

\* the step just taken submitted a load for this user, still unanswered
LoadIssuedFor(uid) ==
    /\ nextSeq = lastEvt.issued + 1
    /\ lastEvt.issued \in DOMAIN calls
    /\ calls[lastEvt.issued].kind = "load"
    /\ calls[lastEvt.issued].user = uid
    /\ calls[lastEvt.issued].stage = "sent"

NothingIssued == nextSeq = lastEvt.issued

\* the record of the targeted task carries what the call sends
CarriesSent(t, sent) ==
    /\ t.completed = sent.completed
    /\ t.status = sent.status
    /\ t.priority = sent.priority
    /\ t.dueDate = sent.due_date

\* the local calendar day a due-date text falls on, counted from 2024-04-28,
\* as <<day>>; <<>> when the task has no due date
DueDay(text, zone) ==
    CASE text = "2024-04-30" -> <<2>>
      [] text = "2024-05-01" -> <<3>>
      [] text = "2024-05-08" -> <<10>>
      [] text = "2025-01-01" -> <<248>>
      [] text = "2024-04-30T23:30:00+00:00" -> IF zone = "east" THEN <<3>> ELSE <<2>>
      [] OTHER -> <<>>

\* the task of the entry is due on a day of the set
DueIn(e, zone, days) ==
    DueDay(e.task.dueDate, zone) # <<>> /\ DueDay(e.task.dueDate, zone)[1] \in days

\* the place of a due-date text among the instants the texts denote
DueOrder(text) ==
    CASE text = "2024-04-30" -> 1
      [] text = "2024-04-30T23:30:00+00:00" -> 2
      [] text = "2024-05-01" -> 3
      [] text = "2024-05-08" -> 4
      [] text = "2025-01-01" -> 5

\* the position of the task with this id in a list
IndexOf(list, id) == CHOOSE i \in 1..Len(list) : list[i].id = id

Sign(n) == IF n < 0 THEN 0 - 1 ELSE IF n > 0 THEN 1 ELSE 0

\* a cached entry that is not an object or has no non-blank string title
Dropped(value) ==
    \/ value.t # "object"
    \/ value.v.title.t # "string"
    \/ Blank(value.v.title.v)

\* entries as a cached list can hold them
ImportSamples ==
    { JS("number", 7), JSNull, JS("string", <<"a">>),
      Entry(Missing, JS("boolean", TRUE), JS("string", 1), Missing, Missing, Missing),
      Entry(JS("number", 1), Missing, Missing, Missing, Missing, Missing),
      Entry(JS("string", <<>>), Missing, Missing, Missing, Missing, Missing),
      Entry(JS("string", <<" ">>), Missing, Missing, Missing, Missing, Missing),
      Entry(JS("string", <<" ", "a">>), Missing, Missing, Missing, Missing, Missing),
      Entry(JS("string", <<"a">>), JS("string", "yes"), JS("number", 1),
            JS("string", "soon"), JS("string", "urgent"), JS("string", "done")) }

\* the entries of the cached list that are not dropped, in their order
KeptEntries == IF cache.t = "array" THEN SelectSeq(cache.v, LAMBDA e : ~Dropped(e)) ELSE <<>>

\* the indices of the entries of a list that satisfy P
Where(list, P(_)) == {i \in 1..Len(list) : P(list[i])}

\* completed = TRUE exactly when status is 'completed'
Synchronized(r) == r.completed <=> (r.status = "completed")

(***************************************************************************)
(* C1.  Tag revision: when the remote call of an addTask, toggleTask,      *)
(* updateTaskTag or deleteTask resolves (success or failure), the local    *)
(* records of all other tasks are exactly what they were just before.      *)
(* The code does not keep this: a failed deleteTask puts back the whole    *)
(* list it captured when the delete started.                               *)
(***************************************************************************)
C1_OnlyOwnRecordChanges ==
    Resolved({"addTaskResolved", "toggleTaskResolved", "updateTaskTagResolved",
              "deleteTaskResolved"})
    => LET own == IF lastEvt.op = "addTaskResolved"
                  THEN (IF Failed THEN 0 ELSE lastEvt.call.data[1].id)
                  ELSE lastEvt.call.id
       IN  Others(tasks, own) = Others(lastEvt.before, own)

(***************************************************************************)
(* C2.  Tag revision: when the remote call of toggleTask, updateTaskTag or *)
(* deleteTask fails, every local record of the toggled/retagged task is    *)
(* the record captured when the action started, the list captured when     *)
(* the delete started is back with the deleted task in it, and error is    *)
(* the operation's message followed by the backend's reason.               *)
(***************************************************************************)
C2_FailureReverts ==
    /\ (Resolved({"toggleTaskResolved", "updateTaskTagResolved"}) /\ Failed)
       => /\ Records(tasks, lastEvt.call.id) \subseteq {lastEvt.call.previous[1]}
          /\ Ids(tasks) = Ids(lastEvt.before)
          /\ error = << IF lastEvt.op = "toggleTaskResolved"
                        THEN "Could not update task: "
                        ELSE "Could not update task tag: ",
                        lastEvt.call.reason >>
          /\ lastEvt.call.reason \in {NetworkError, NoRowError}
    /\ (Resolved({"deleteTaskResolved"}) /\ Failed)
       => /\ tasks = lastEvt.call.previous
          /\ lastEvt.call.id \in Ids(tasks)
          /\ error = <<"Could not delete task: ", lastEvt.call.reason>>

\* a toggle failed and the optimistic record went back to the captured one
C2_Witness ==
    /\ Resolved({"toggleTaskResolved"}) /\ Failed
    /\ Records(lastEvt.before, lastEvt.call.id) # {lastEvt.call.previous[1]}
    /\ Records(tasks, lastEvt.call.id) = {lastEvt.call.previous[1]}

(***************************************************************************)
(* C3.  Tag revision: in the state right after toggleTask, updateTaskTag   *)
(* (to another tag) or deleteTask, taken with a session, the local list    *)
(* has the change (completed flipped, tag replaced, task gone) and the     *)
(* remote call carrying that change is in flight, unanswered.              *)
(***************************************************************************)
C3_OptimisticFirst ==
    /\ lastEvt.op \in {"toggleTask", "updateTaskTag", "deleteTask"}
       => /\ session # NoSession
          /\ InFlightNow(lastEvt.call)
          /\ lastEvt.call.id \in Ids(lastEvt.before)
    /\ lastEvt.op = "toggleTask"
       => /\ Records(tasks, lastEvt.call.id) # {}
          /\ \A t \in Records(tasks, lastEvt.call.id) :
                /\ t.completed = ~lastEvt.before[lastEvt.input].completed
                /\ t.completed = lastEvt.call.sent.completed
    /\ lastEvt.op = "updateTaskTag"
       => /\ Records(tasks, lastEvt.call.id) # {}
          /\ \A t \in Records(tasks, lastEvt.call.id) :
                /\ t.tag = lastEvt.input
                /\ t.tag = lastEvt.call.sent.tag
                /\ t.tag # lastEvt.call.previous[1].tag
    /\ lastEvt.op = "deleteTask"
       => /\ lastEvt.call.id \notin Ids(tasks)
          /\ lastEvt.before[lastEvt.input].id = lastEvt.call.id

\* a toggle has just been taken: its call is unanswered and the record is flipped
C3_Witness ==
    /\ lastEvt.op = "toggleTask"
    /\ InFlightNow(lastEvt.call)
    /\ tasks # lastEvt.before

(***************************************************************************)
(* C5.  Tag revision: when the remote update of toggleTask or              *)
(* updateTaskTag succeeds, every local record with the targeted id is the  *)
(* task of the row the server returned (tag normalised), and every other   *)
(* record is unchanged.                                                    *)
(***************************************************************************)
C5_SuccessTakesServerRow ==
    (Resolved({"toggleTaskResolved", "updateTaskTagResolved"}) /\ ~Failed)
    => /\ Len(tasks) = Len(lastEvt.before)
       /\ \A i \in 1..Len(tasks) :
             tasks[i] = IF lastEvt.before[i].id = lastEvt.call.id
                        THEN TaskOfRow(lastEvt.call.data[1])
                        ELSE lastEvt.before[i]

\* an update succeeded with a row that differs from the optimistic record, and
\* whose tag is not one the client knows
C5_Witness ==
    /\ Resolved({"toggleTaskResolved", "updateTaskTagResolved"}) /\ ~Failed
    /\ lastEvt.call.data[1].tag = "legacy"
    /\ \E i \in 1..Len(tasks) :
          /\ tasks[i].id = lastEvt.call.id
          /\ tasks[i] # lastEvt.before[i]
          /\ tasks[i].tag = Null

(***************************************************************************)
(* C6.  Tag revision: two updates (toggleTask, updateTaskTag) of one task  *)
(* can be in flight together, and when the response of one resolves after  *)
(* the response of the other, the local record is the one this later       *)
(* response writes (its row on success, its captured record on failure),   *)
(* whichever of the two was submitted first.                               *)
(***************************************************************************)
C6_LastResponseWins ==
    (Resolved({"toggleTaskResolved", "updateTaskTagResolved"}) /\ lastEvt.call.seen # {})
    => Records(tasks, lastEvt.call.id)
         = IF lastEvt.call.id \in Ids(lastEvt.before)
           THEN {IF Failed THEN lastEvt.call.previous[1]
                           ELSE TaskOfRow(lastEvt.call.data[1])}
           ELSE {}

\* the update submitted first resolved last and overwrote what the response of
\* the update submitted second had written
C6_Witness ==
    /\ Resolved({"toggleTaskResolved", "updateTaskTagResolved"})
    /\ \E q \in lastEvt.call.seen : q > lastEvt.call.seq
    /\ Records(tasks, lastEvt.call.id) # Records(lastEvt.before, lastEvt.call.id)
    /\ Records(tasks, lastEvt.call.id) # {}

(***************************************************************************)
(* C4.  Priority/status revision, as the code has it: updateTask (toggle,  *)
(* priority, status, due date) and deleteTask leave the local list as it   *)
(* was when the action is taken and while the call is in flight; the list  *)
(* changes only when the call resolves with success (the record becomes    *)
(* the task of the returned row, the deleted task goes), and on failure    *)
(* it is unchanged and error names the operation and the reason.           *)
(***************************************************************************)
C4_AppliedOnSuccessOnly ==
    /\ lastEvt.op \in {"updateTask", "deleteTaskPS"}
       => /\ tasks = lastEvt.before
          /\ InFlightNow(lastEvt.call)
          /\ lastEvt.call.id \in Ids(tasks)
    /\ (Resolved({"updateTaskResolved"}) /\ ~Failed)
       => /\ Len(tasks) = Len(lastEvt.before)
          /\ \A i \in 1..Len(tasks) :
                tasks[i] = IF lastEvt.before[i].id = lastEvt.call.id
                           THEN TaskOfRowPS(lastEvt.call.data[1])
                           ELSE lastEvt.before[i]
    /\ (Resolved({"deleteTaskResolvedPS"}) /\ ~Failed)
       => tasks = Others(lastEvt.before, lastEvt.call.id)
    /\ (Resolved({"updateTaskResolved", "deleteTaskResolvedPS"}) /\ Failed)
       => /\ tasks = lastEvt.before
          /\ error = << IF lastEvt.op = "updateTaskResolved"
                        THEN "Could not update task: "
                        ELSE "Could not delete task: ",
                        lastEvt.call.reason >>

\* an update resolved with success and only then the record changed
C4_Witness ==
    /\ Resolved({"updateTaskResolved"}) /\ ~Failed
    /\ lastEvt.call.previous[1] \in Records(lastEvt.before, lastEvt.call.id)
    /\ tasks # lastEvt.before
    /\ \A t \in Records(tasks, lastEvt.call.id) : CarriesSent(t, lastEvt.call.sent)

\* C4 as stated: right after the action the local list already has the change
C4_AppliedImmediately ==
    /\ lastEvt.op = "updateTask"
       => \A t \in Records(tasks, lastEvt.call.id) : CarriesSent(t, lastEvt.call.sent)
    /\ lastEvt.op = "deleteTaskPS"
       => lastEvt.call.id \notin Ids(tasks)

(***************************************************************************)
(* C7.  Both revisions: addTask with a non-blank title leaves the local    *)
(* list unchanged when it submits the insert and while the store handles   *)
(* it; when the call resolves with success the list is the task of the     *)
(* returned row followed by the list as it was; when it resolves with      *)
(* failure the list is unchanged and error is 'Could not add task: '       *)
(* followed by the reason.                                                 *)
(***************************************************************************)
C7_InsertAfterAck ==
    /\ (lastEvt.op = "addTask" /\ lastEvt.call # NoCall)
       => /\ tasks = lastEvt.before
          /\ InFlightNow(lastEvt.call)
          /\ lastEvt.call.kind = "insert"
    /\ lastEvt.op = "server" => tasks = lastEvt.before
    /\ (Resolved({"addTaskResolved"}) /\ ~Failed)
       => tasks = <<TaskOf(lastEvt.call.data[1])>> \o lastEvt.before
    /\ (Resolved({"addTaskResolved"}) /\ Failed)
       => /\ tasks = lastEvt.before
          /\ error = <<"Could not add task: ", lastEvt.call.reason>>

\* an insert succeeded in the priority/status revision while the list was not
\* empty, and the new task, unknown before, is at the head
C7_Witness ==
    /\ rev = "ps"
    /\ Resolved({"addTaskResolved"}) /\ ~Failed
    /\ lastEvt.before # <<>>
    /\ tasks[1].id \notin Ids(lastEvt.before)
    /\ Len(tasks) = Len(lastEvt.before) + 1

(***************************************************************************)
(* C8.  Both revisions: addTask with a title made of spaces only (or       *)
(* empty) submits no call, leaves the task list and the saving flag as     *)
(* they were, and sets error to 'Task title cannot be empty.'.             *)
(***************************************************************************)
C8_BlankTitleRejected ==
    (lastEvt.op = "addTask" /\ Blank(lastEvt.input))
    => /\ NothingIssued
       /\ lastEvt.call = NoCall
       /\ tasks = lastEvt.before
       /\ saving = lastEvt.saving
       /\ error = <<"Task title cannot be empty.">>

\* a whitespace-only title was submitted with tasks in the list
C8_Witness ==
    /\ lastEvt.op = "addTask"
    /\ lastEvt.input = <<" ">>
    /\ error = <<"Task title cannot be empty.">>
    /\ tasks # <<>>
    /\ DOMAIN calls = {}

(***************************************************************************)
(* C9.  As the code has it.  Tag revision: on every session-change         *)
(* notification a session with a user submits a task load for that user's  *)
(* id, and an absent session empties the list and the profile name in the  *)
(* same step.  Priority/status revision: the same (without a profile       *)
(* name) when the notification changes the user id; a notification that    *)
(* carries the user id the client already has submits no load and leaves   *)
(* the list as it is.                                                      *)
(***************************************************************************)
C9_ReloadOnUserChange ==
    lastEvt.op = "onAuthStateChange"
    => /\ session = lastEvt.input
       /\ rev = "tag"
          => IF lastEvt.input # NoSession
             THEN LoadIssuedFor(lastEvt.input) /\ tasks = lastEvt.before
             ELSE tasks = <<>> /\ profileName = Null /\ NothingIssued
       /\ (rev = "ps" /\ lastEvt.input # lastEvt.user)
          => IF lastEvt.input # NoSession
             THEN LoadIssuedFor(lastEvt.input) /\ tasks = lastEvt.before
             ELSE tasks = <<>> /\ importCandidates = <<>> /\ NothingIssued
       /\ (rev = "ps" /\ lastEvt.input = lastEvt.user)
          => NothingIssued /\ tasks = lastEvt.before

\* the priority/status revision was notified of the user it already had,
\* with that user's tasks loaded, and submitted nothing
C9_Witness ==
    /\ rev = "ps"
    /\ lastEvt.op = "onAuthStateChange"
    /\ lastEvt.input = lastEvt.user
    /\ lastEvt.input # NoSession
    /\ tasks # <<>>
    /\ DOMAIN calls = {}

\* C9 as stated: every notification with a user submits a load for that user,
\* every notification without one leaves the list empty
C9_ReloadOnEveryNotification ==
    lastEvt.op = "onAuthStateChange"
    => IF lastEvt.input # NoSession
       THEN LoadIssuedFor(lastEvt.input)
       ELSE tasks = <<>> /\ (rev = "tag" => profileName = Null)

(***************************************************************************)
(* C10.  Priority/status revision: in every reachable state every task of  *)
(* the local list has completed = TRUE exactly when its status is          *)
(* 'completed', and so has every record the client has sent to the store   *)
(* with addTask's insert, updateTask's update and importLocalTasks'        *)
(* insert, whatever pairs the rows of the store and the cached entries     *)
(* hold.                                                                   *)
(***************************************************************************)
C10_CompletedIffStatus ==
    rev = "ps"
    => /\ \A i \in 1..Len(tasks) : Synchronized(tasks[i])
       /\ \A s \in DOMAIN calls :
             /\ calls[s].kind \in {"insert", "update"} => Synchronized(calls[s].sent)
             /\ calls[s].kind = "import"
                => \A i \in 1..Len(calls[s].sent) : Synchronized(calls[s].sent[i])

\* the list holds a task whose row in the store is not synchronized, and an
\* import is in flight that carries a cached entry that was not
C10_Witness ==
    /\ rev = "ps"
    /\ \E i \in 1..Len(tasks) :
          /\ tasks[i].id \in DOMAIN rows
          /\ ~Synchronized(rows[tasks[i].id])
    /\ \E s \in DOMAIN calls :
          /\ calls[s].kind = "import"
          /\ \E i \in 1..Len(calls[s].sent) :
                /\ calls[s].sent[i].text = <<"a">>
                /\ calls[s].sent[i].status = "completed"
                /\ calls[s].sent[i].priority = "medium"

(***************************************************************************)
(* C11.  normalizeTaskState is idempotent: for every pair (completed,      *)
(* status), applying it to its own result gives that result again; in      *)
(* particular every record the client sends, which it has normalised, is   *)
(* left as it is by a second application.                                  *)
(***************************************************************************)
C11_NormalizeIdempotent ==
    /\ \A completed \in BOOLEAN, status \in Statuses :
          LET once == normalizeTaskState(completed, status)
          IN  normalizeTaskState(once.completed, once.status) = once
    /\ rev = "ps"
       => \A s \in DOMAIN calls :
             calls[s].kind \in {"insert", "update"}
             => normalizeTaskState(calls[s].sent.completed, calls[s].sent.status)
                  = [completed |-> calls[s].sent.completed, status |-> calls[s].sent.status]

\* updateTask was given a status for a completed task: the first application
\* changed the pair, and applying the rule to the record sent changes nothing
C11_Witness ==
    /\ lastEvt.op = "updateTask"
    /\ "status" \in DOMAIN lastEvt.input
    /\ lastEvt.input.status # lastEvt.call.sent.status
    /\ normalizeTaskState(lastEvt.call.sent.completed, lastEvt.call.sent.status)
         = [completed |-> lastEvt.call.sent.completed, status |-> lastEvt.call.sent.status]

(***************************************************************************)
(* C12.  Tag revision: in every render, the overdue flag of a task is true *)
(* exactly when the task is not completed, it has a due date, and the      *)
(* local calendar day of that date is strictly before the day on which     *)
(* today's key was taken.                                                  *)
(***************************************************************************)
C12_OverdueFlag ==
    rev = "tag"
    => \A i \in 1..Len(tasks) :
          LET e == TasksWithFlags[i]
          IN  e.overdue <=> /\ ~tasks[i].completed
                            /\ DueIn(e, clock.zone, 0..(clock.first - 1))

\* on 2024-05-02, east of UTC, a timestamp of 2024-04-30 23:30 UTC (local
\* 2024-05-01) is overdue while a completed task of the same day is not
C12_Witness ==
    /\ rev = "tag"
    /\ clock.first = 4
    /\ clock.zone = "east"
    /\ lastEvt.op = "render"
    /\ \E i \in 1..Len(tasks) :
          /\ tasks[i].dueDate = "2024-04-30T23:30:00+00:00"
          /\ TasksWithFlags[i].overdue
    /\ \E i \in 1..Len(tasks) :
          /\ tasks[i].dueDate = "2024-05-01"
          /\ tasks[i].completed
          /\ ~TasksWithFlags[i].overdue

(***************************************************************************)
(* C13.  Tag revision: in every render, the upcoming flag of a task is     *)
(* true exactly when the task is not completed, it has a due date, and the *)
(* day of that date is one of the seven days after today, today being the  *)
(* day of today's key.  The code does not keep this when midnight passes   *)
(* between its three readings of the clock.                                *)
(***************************************************************************)
C13_UpcomingFlag ==
    rev = "tag"
    => \A i \in 1..Len(tasks) :
          LET e == TasksWithFlags[i]
          IN  e.upcoming <=> /\ ~tasks[i].completed
                             /\ DueIn(e, clock.zone, (clock.first + 1)..(clock.first + 7))

(***************************************************************************)
(* C14.  Tag revision: a task whose due date falls on the day of today's   *)
(* key is flagged neither overdue nor upcoming, whatever its other fields, *)
(* and is in the visible list of neither the 'overdue' nor the 'upcoming'  *)
(* view.                                                                   *)
(***************************************************************************)
C14_DueTodayNeither ==
    rev = "tag"
    => \A i \in 1..Len(tasks) :
          DueIn(TasksWithFlags[i], clock.zone, {clock.first})
          => /\ ~TasksWithFlags[i].overdue
             /\ ~TasksWithFlags[i].upcoming
             /\ \A v \in {"overdue", "upcoming"} :
                   \A j \in 1..Len(filteredTasksWithFlags(TasksWithFlags, v)) :
                      filteredTasksWithFlags(TasksWithFlags, v)[j].task.id # tasks[i].id

\* the 'upcoming' view is selected on 2024-05-01 with two open tasks, one due
\* that day and one due a week later: only the second is visible
C14_Witness ==
    /\ rev = "tag"
    /\ lastEvt.op = "setView"
    /\ view = "upcoming"
    /\ clock.first = 3
    /\ Len(tasks) = 2
    /\ tasks[1].dueDate = "2024-05-08" /\ ~tasks[1].completed
    /\ tasks[2].dueDate = "2024-05-01" /\ ~tasks[2].completed
    /\ Len(VisibleTasks) = 1
    /\ VisibleTasks[1].task.id = tasks[1].id

(***************************************************************************)
(* C15.  Tag revision: in every reachable state, the states in which a     *)
(* toggle has been applied locally and its call is still in flight         *)
(* included, a task whose local completed flag is true is flagged neither  *)
(* overdue nor upcoming, whatever its due date and whenever the render     *)
(* reads the clock.                                                        *)
(***************************************************************************)
C15_CompletedNeverFlagged ==
    rev = "tag"
    => \A now \in ClockReads : \A i \in 1..Len(tasks) :
          tasks[i].completed
          => /\ ~tasksWithFlags(tasks, now)[i].overdue
             /\ ~tasksWithFlags(tasks, now)[i].upcoming

\* toggleTask has just completed a task locally, its call is in flight, and
\* on some day the task was overdue before the toggle, on some day upcoming
C15_Witness ==
    /\ lastEvt.op = "toggleTask"
    /\ InFlightNow(lastEvt.call)
    /\ \E i \in 1..Len(tasks) :
          /\ tasks[i].id = lastEvt.call.id
          /\ tasks[i].completed
          /\ ~lastEvt.before[i].completed
          /\ \E now \in ClockReads : tasksWithFlags(lastEvt.before, now)[i].overdue
          /\ \E now \in ClockReads : tasksWithFlags(lastEvt.before, now)[i].upcoming

(***************************************************************************)
(* C16.  Tag revision: for every task list the 'all' count and the number  *)
(* of tasks visible in the 'all' view both equal the length of the list,   *)
(* and the 'work' count plus the 'personal' count is at most that length.  *)
(***************************************************************************)
C16_AllCountsEverything ==
    rev = "tag"
    => /\ ViewCounts.all = Len(tasks)
       /\ Len(visibleTasks(filteredTasksWithFlags(TasksWithFlags, "all"))) = Len(tasks)
       /\ view = "all" => Len(VisibleTasks) = Len(tasks)
       /\ ViewCounts.work + ViewCounts.personal <= Len(tasks)

\* back in the 'all' view with two tasks, one of them without a tag
C16_Witness ==
    /\ rev = "tag"
    /\ lastEvt.op = "setView"
    /\ view = "all"
    /\ Len(tasks) = 2
    /\ Len(VisibleTasks) = 2
    /\ tasks[1].tag = "work"
    /\ tasks[2].tag = Null
    /\ ViewCounts.work + ViewCounts.personal < ViewCounts.all

(***************************************************************************)
(* C17.  Tag revision: each of the six sidebar counts is the number of     *)
(* tasks of the whole list that satisfy its predicate, so a task that      *)
(* satisfies several predicates is counted in each, and after setView has  *)
(* changed the selected view every count is what it was before.            *)
(***************************************************************************)
C17_CountsIgnoreView ==
    rev = "tag"
    => /\ ViewCounts
            = [all |-> Cardinality(Where(TasksWithFlags, LAMBDA e : TRUE)),
               work |-> Cardinality(Where(TasksWithFlags, LAMBDA e : e.task.tag = "work")),
               personal |->
                   Cardinality(Where(TasksWithFlags, LAMBDA e : e.task.tag = "personal")),
               overdue |-> Cardinality(Where(TasksWithFlags, LAMBDA e : e.overdue)),
               upcoming |-> Cardinality(Where(TasksWithFlags, LAMBDA e : e.upcoming)),
               completed |-> Cardinality(Where(TasksWithFlags, LAMBDA e : e.task.completed))]
       /\ lastEvt.op = "setView"
          => /\ view = lastEvt.input.view
             /\ ViewCounts = lastEvt.input.counts

\* the 'work' view has just been selected; of two overdue tasks one is tagged
\* work: it is counted under 'work' and under 'overdue', and the counts of
\* 'all' and 'overdue' exceed the one task the view shows
C17_Witness ==
    /\ rev = "tag"
    /\ lastEvt.op = "setView"
    /\ view = "work"
    /\ Len(VisibleTasks) = 1
    /\ VisibleTasks[1].overdue
    /\ ViewCounts.work = 1
    /\ ViewCounts.overdue = 2
    /\ ViewCounts.all = 2

(***************************************************************************)
(* C18.  Tag revision: the visible list of the selected view consists of   *)
(* the tasks that satisfy the view's predicate ('all': every task; 'work', *)
(* 'personal': the tag is that value; 'overdue', 'upcoming': the flag is   *)
(* set; 'completed': completed is true), each once, in the order of the    *)
(* task list, each with its overdue flag.                                  *)
(***************************************************************************)
C18_VisibleIsSublist ==
    rev = "tag"
    => LET shown == CASE view = "all" -> 1..Len(tasks)
                      [] view = "work" -> {i \in 1..Len(tasks) : tasks[i].tag = "work"}
                      [] view = "personal" ->
                            {i \in 1..Len(tasks) : tasks[i].tag = "personal"}
                      [] view = "overdue" ->
                            {i \in 1..Len(tasks) : TasksWithFlags[i].overdue}
                      [] view = "upcoming" ->
                            {i \in 1..Len(tasks) : TasksWithFlags[i].upcoming}
                      [] view = "completed" -> {i \in 1..Len(tasks) : tasks[i].completed}
           \* the position in the visible list of a shown task
           Rank(i) == Cardinality({k \in shown : k <= i})
       IN  /\ Len(VisibleTasks) = Cardinality(shown)
           /\ \A i \in shown :
                 VisibleTasks[Rank(i)]
                   = [task |-> tasks[i], overdue |-> TasksWithFlags[i].overdue]

\* the 'completed' view has just been selected: of two tasks the second is
\* completed and is the only one shown
C18_Witness ==
    /\ rev = "tag"
    /\ lastEvt.op = "setView"
    /\ view = "completed"
    /\ Len(tasks) = 2
    /\ ~tasks[1].completed
    /\ tasks[2].completed
    /\ VisibleTasks = <<[task |-> tasks[2], overdue |-> FALSE]>>

(***************************************************************************)
(* C19.  Priority/status revision: with sort key 'due_date' the visible    *)
(* list holds the tasks that pass the view and status filters, every task  *)
(* with a due date before every task without one, the tasks with due dates *)
(* in ascending order of due date, and tasks with equal due dates, or both *)
(* without one, in descending order of creation time.                      *)
(***************************************************************************)
C19_DueDateOrder ==
    rev = "ps" /\ sortBy = "due_date"
    => LET shown == VisibleTasksPS
       IN  /\ Len(shown) = Len(visibleTasksPS(tasks, view, statusFilter, "created_desc",
                                              clock.first))
           /\ \A i \in 1..Len(shown) : \A j \in (i + 1)..Len(shown) :
                 LET a == shown[i]
                     b == shown[j]
                 IN  /\ a.id # b.id
                     /\ a.dueDate = Null => b.dueDate = Null
                     /\ a.dueDate # Null /\ b.dueDate # Null
                        => DueOrder(a.dueDate) <= DueOrder(b.dueDate)
                     /\ a.dueDate = b.dueDate => a.createdAt >= b.createdAt

\* 'due_date' has just been selected for three tasks that the list holds in
\* another order: one without due date, shown last, and two due on the same
\* day, the one created later shown first
C19_Witness ==
    /\ rev = "ps"
    /\ lastEvt.op = "setSortBy"
    /\ sortBy = "due_date"
    /\ Len(tasks) = 3
    /\ Len(VisibleTasksPS) = 3
    /\ tasks[1].dueDate = Null
    /\ VisibleTasksPS[3] = tasks[1]
    /\ VisibleTasksPS[1].dueDate = VisibleTasksPS[2].dueDate
    /\ VisibleTasksPS[1].createdAt > VisibleTasksPS[2].createdAt
    /\ VisibleTasksPS[1] = tasks[2]

(***************************************************************************)
(* C20.  Priority/status revision: for each of the three sort keys the     *)
(* callback of the sort orders the tasks consistently: the sign of         *)
(* compare(a, b) is the opposite of the sign of compare(b, a), the         *)
(* relation is transitive, tasks without due date included, and tasks that *)
(* compare equal are shown in the order the task list has them.            *)
(***************************************************************************)
C20_ConsistentStableOrder ==
    rev = "ps"
    => /\ \A by \in SortBys : \A i, j \in 1..Len(tasks) :
             Sign(compare(tasks[i], tasks[j], by)) = 0 - Sign(compare(tasks[j], tasks[i], by))
       /\ \A by \in SortBys : \A i, j, k \in 1..Len(tasks) :
             /\ compare(tasks[i], tasks[j], by) <= 0 /\ compare(tasks[j], tasks[k], by) <= 0
                => compare(tasks[i], tasks[k], by) <= 0
             /\ compare(tasks[i], tasks[j], by) < 0 /\ compare(tasks[j], tasks[k], by) <= 0
                => compare(tasks[i], tasks[k], by) < 0
             /\ compare(tasks[i], tasks[j], by) <= 0 /\ compare(tasks[j], tasks[k], by) < 0
                => compare(tasks[i], tasks[k], by) < 0
       /\ LET shown == VisibleTasksPS
          IN  \A i \in 1..Len(shown) : \A j \in (i + 1)..Len(shown) :
                 /\ compare(shown[i], shown[j], sortBy) <= 0
                 /\ compare(shown[i], shown[j], sortBy) = 0
                    => IndexOf(tasks, shown[i].id) < IndexOf(tasks, shown[j].id)

\* 'priority' has just been selected for three tasks: the first two of the
\* list, both without due date, compare equal under every key and stay in
\* their order behind the third, which has the higher priority
C20_Witness ==
    /\ rev = "ps"
    /\ lastEvt.op = "setSortBy"
    /\ sortBy = "priority"
    /\ Len(tasks) = 3
    /\ compare(tasks[1], tasks[2], "priority") = 0
    /\ compare(tasks[1], tasks[2], "due_date") = 0
    /\ tasks[1].dueDate = Null
    /\ VisibleTasksPS = <<tasks[3], tasks[1], tasks[2]>>

(***************************************************************************)
(* C21.  Priority/status revision: toImportableTask drops exactly the      *)
(* entries that are not objects or have no non-blank string title; the     *)
(* import candidates are the other entries of the cached list, one each    *)
(* and in their order, with trimmed title and defaulted, normalized        *)
(* fields; importLocalTasks sends one record per candidate and the store   *)
(* inserts exactly these for the user, whatever entries were dropped.      *)
(***************************************************************************)
C21_ImportDropsOnlyInvalid ==
    /\ \A value \in ImportSamples :
          (toImportableTaskAt(value, InitTime) = JSNull) <=> Dropped(value)
    /\ rev = "ps" /\ lastEvt.op \in {"getSession", "onAuthStateChange"}
       /\ session # NoSession /\ session # lastEvt.user
       => Len(importCandidates) = Len(KeptEntries)
    /\ rev = "ps" /\ importCandidates # <<>>
       => /\ Len(importCandidates) = Len(KeptEntries)
          /\ \A k \in 1..Len(importCandidates) :
                /\ importCandidates[k].title = trim(KeptEntries[k].v.title.v)
                /\ Synchronized(importCandidates[k])
                /\ importCandidates[k].priority \in Priorities
                /\ importCandidates[k].status \in Statuses
                /\ importCandidates[k].dueDate \in DueDates
    /\ rev = "ps"
       => \A s \in DOMAIN calls :
             calls[s].kind = "import"
             => /\ Len(calls[s].sent) = Len(KeptEntries)
                /\ \A k \in 1..Len(calls[s].sent) :
                      /\ calls[s].sent[k].text = trim(KeptEntries[k].v.title.v)
                      /\ calls[s].sent[k].user_id = calls[s].user
    /\ rev = "ps" /\ lastEvt.op = "server" /\ calls[lastEvt.input].kind = "import"
       => LET sent == calls[lastEvt.input].sent
              new == (nextId - Len(sent))..(nextId - 1)
          IN  /\ Len(sent) = Len(KeptEntries)
              /\ new \subseteq DOMAIN rows
              /\ \A id \in new : rows[id] = RowOfPS(id, sent[id - (nextId - Len(sent)) + 1])

\* the import of a cached list of four entries, two of them dropped, has
\* succeeded: the store has the two others as rows 4 and 5
C21_Witness ==
    /\ rev = "ps"
    /\ lastEvt.op = "importLocalTasksResolved"
    /\ lastEvt.call.stage = "ok"
    /\ Len(lastEvt.call.sent) = 2
    /\ {4, 5} \subseteq DOMAIN rows
    /\ rows[4].text = <<"a">> /\ rows[4].status = "completed" /\ rows[4].priority = "medium"
    /\ rows[5].text = <<"a">> /\ rows[5].status = "open" /\ rows[5].priority = "low"

C23_NoAutomaticRetry ==
    rev = "tag"
    => /\ \A s \in DOMAIN calls : s < nextSeq /\ calls[s].seq = s
       /\ lastEvt.op \in {"addTask", "toggleTask", "updateTaskTag", "deleteTask"}
          => /\ nextSeq <= lastEvt.issued + 1
             /\ nextSeq = lastEvt.issued + 1 <=> lastEvt.call # NoCall
       /\ lastEvt.op \in {"addTaskResolved", "toggleTaskResolved", "updateTaskTagResolved",
                          "deleteTaskResolved", "loadTasksResolved"}
          => /\ NothingIssued
             /\ lastEvt.call.seq \notin DOMAIN calls
       /\ lastEvt.op \in {"server", "loadProfileResolved"} => NothingIssued

\* the call of a toggle has failed: the record is reverted and no call is left
C23_Witness ==
    /\ rev = "tag"
    /\ lastEvt.op = "toggleTaskResolved"
    /\ Failed
    /\ error # NoError
    /\ DOMAIN calls = {}
    /\ nextSeq = lastEvt.call.seq + 1

(***************************************************************************)
(* C24.  Tag revision: every call on the task collection carries the id of *)
(* a user; a call issued by addTask, toggleTask, updateTaskTag or          *)
(* deleteTask carries the id of the user whose session was current when    *)
(* the action started, the inserted record included, and no such action    *)
(* issues a call while the session is absent; a load carries the id of the *)
(* user of the session that started it.                                    *)
(***************************************************************************)
C24_CallsCarryUserId ==
    rev = "tag"
    => /\ \A s \in DOMAIN calls :
             /\ calls[s].user \in Users
             /\ calls[s].kind = "insert" => calls[s].sent.user_id = calls[s].user
       /\ lastEvt.op \in {"addTask", "toggleTask", "updateTaskTag", "deleteTask"}
          => /\ lastEvt.user # NoSession
             /\ lastEvt.call # NoCall
                => /\ lastEvt.call.user = lastEvt.user
                   /\ lastEvt.call.seq \in DOMAIN calls
                   /\ calls[lastEvt.call.seq] = lastEvt.call
       /\ lastEvt.op \in {"getSession", "onAuthStateChange"}
          => IF lastEvt.input = NoSession THEN NothingIssued
             ELSE /\ LoadIssuedFor(lastEvt.input)
                  /\ session = lastEvt.input

\* u2 has replaced u1 while the load for u1 is unanswered; addTask then sends
\* its record with the id of u2
C24_Witness ==
    /\ rev = "tag"
    /\ lastEvt.op = "addTask"
    /\ lastEvt.call # NoCall
    /\ lastEvt.call.user = "u2"
    /\ lastEvt.call.sent.user_id = "u2"
    /\ \E s \in DOMAIN calls : calls[s].kind = "load" /\ calls[s].user = "u1"

(***************************************************************************)
(* C25.  Tag revision: when a failing loadTasks or addTask call resolves,  *)
(* the flag the operation raised (loading, saving) is false, the task list *)
(* is the one before the step, error holds the operation's message, the    *)
(* session is untouched, and once no other call is in flight neither flag  *)
(* is up, so the form and the rows' controls are enabled.  The steps that  *)
(* start the two operations leave the list as it was as well.              *)
(***************************************************************************)
C25_FailureIsNotFatal ==
    rev = "tag"
    => /\ Resolved({"loadTasksResolved"}) /\ Failed
          => /\ ~loading
             /\ tasks = lastEvt.before
             /\ error # NoError
             /\ error = <<"Could not load tasks: ", lastEvt.call.reason>>
             /\ session = lastEvt.user
             /\ saving = lastEvt.saving
       /\ Resolved({"addTaskResolved"}) /\ Failed
          => /\ ~saving
             /\ tasks = lastEvt.before
             /\ error # NoError
             /\ error = <<"Could not add task: ", lastEvt.call.reason>>
             /\ session = lastEvt.user
       /\ Resolved({"loadTasksResolved", "addTaskResolved"}) /\ DOMAIN calls = {}
          => ~loading /\ ~saving
       /\ lastEvt.op = "addTask" => tasks = lastEvt.before
       /\ lastEvt.op \in {"getSession", "onAuthStateChange"} /\ lastEvt.input # NoSession
          => tasks = lastEvt.before

\* a load fails after an earlier one had filled the list: the list is kept
C25_Witness ==
    /\ rev = "tag"
    /\ lastEvt.op = "loadTasksResolved"
    /\ Failed
    /\ tasks # <<>>
    /\ ~loading
    /\ error # NoError
    /\ DOMAIN calls = {}

(***************************************************************************)
(* C26.  Tag revision: when the response of a toggleTask or updateTaskTag  *)
(* call on a task has resolved, succeeding or failing, and no call is in   *)
(* flight any more, the local record's completed and tag values are those  *)
(* of the store's row of that task.                                        *)
(***************************************************************************)
C26_SettledLikeServer ==
    /\ rev = "tag"
    /\ Resolved({"toggleTaskResolved", "updateTaskTagResolved"})
    /\ DOMAIN calls = {}
    /\ lastEvt.call.id \in DOMAIN rows
    => \A t \in Records(tasks, lastEvt.call.id) :
          /\ t.completed = TaskOfRow(rows[t.id]).completed
          /\ t.tag = TaskOfRow(rows[t.id]).tag

(***************************************************************************)
(* C27.  Tag revision: the local task list never holds two records with    *)
(* the same id, whatever the order in which the responses of an addTask    *)
(* insert and of a loadTasks started by a session change arrive.           *)
(***************************************************************************)
C27_UniqueLocalIds ==
    rev = "tag"
    => \A i, j \in 1..Len(tasks) : tasks[i].id = tasks[j].id => i = j

(***************************************************************************)
(* C28.  Tag revision: whenever the list is shown (no load has the rows    *)
(* replaced by the loading notice), it holds only tasks of the current     *)
(* session's user: none at all while the session is absent, and otherwise  *)
(* only records whose row belongs to the session's user.                   *)
(***************************************************************************)
C28_OnlyCurrentUsersTasks ==
    rev = "tag" /\ ~loading
    => /\ session = NoSession => tasks = <<>>
       /\ \A i \in 1..Len(tasks) :
             tasks[i].id \in DOMAIN rows => rows[tasks[i].id].user_id = session

(***************************************************************************)
(* C29.  Priority/status revision: when updateTask(id, {status: s}) has    *)
(* succeeded, the store having written what it was sent, the task's local  *)
(* status is s and its completed flag is (s = "completed"), whatever the   *)
(* task's state was before.                                                *)
(***************************************************************************)
C29_StatusChangeApplies ==
    /\ rev = "ps"
    /\ lastEvt.op = "updateTaskResolved"
    /\ ~Failed
    /\ DOMAIN lastEvt.call.changes = {"status"}
    => \A t \in Records(tasks, lastEvt.call.id) :
          /\ t.status = lastEvt.call.changes.status
          /\ t.completed = (lastEvt.call.changes.status = "completed")

(***************************************************************************)
(* C30.  Priority/status revision: updateTask(id, {dueDate: null}) on a    *)
(* task that has a due date sends due_date = null together with the        *)
(* task's current priority, completed flag and status, and after the call  *)
(* has succeeded the local task has no due date.                           *)
(***************************************************************************)
C30_ClearingDueDate ==
    /\ rev = "ps"
    /\ lastEvt.op \in {"updateTask", "updateTaskResolved"}
    /\ lastEvt.call.changes = [dueDate |-> Null]
    /\ lastEvt.call.previous[1].dueDate # Null
    => /\ lastEvt.call.sent.due_date = Null
       /\ lastEvt.call.sent.priority = lastEvt.call.previous[1].priority
       /\ lastEvt.call.sent.completed = lastEvt.call.previous[1].completed
       /\ lastEvt.call.sent.status = lastEvt.call.previous[1].status
       /\ lastEvt.op = "updateTaskResolved" /\ ~Failed
          => \A t \in Records(tasks, lastEvt.call.id) : t.dueDate = Null

====
